---------------------------- MODULE Spec2Model ----------------------------
(***************************************************************************)
(* A model of the decision core of Buddy AI: the profile store             *)
(* (memory/memory_store.py), the memory referencer                         *)
(* (memory/memory_referencer.py), the state detector                       *)
(* (conversation/state_detector.py) and the chat input handler (app.py).   *)
(*                                                                         *)
(* Conventions.  Python strings are TLA+ strings (TLC slices them with     *)
(* SubSeq and joins them with \o).  Python lists are sequences, Python     *)
(* dicts are records or functions.  A confidence such as 0.8 is the        *)
(* integer number of tenths (8).  A JSON text column of the profile row    *)
(* is the list it decodes to.                                              *)
(***************************************************************************)
EXTENDS Integers, Sequences, FiniteSets, TLC

VARIABLES
    profiles,                    \* student_profiles table: student_id -> row
    last_reference_message_idx,  \* MemoryReferencer._last_reference_message_idx
    call,                        \* the last operation performed and what it returned
    writers,                     \* the update_profile calls in progress, each in its own session
    messages,                    \* the messages of the active chat
    message_timestamps,          \* st.session_state.message_timestamps
    clock,                       \* time.time(), in seconds
    surfaced,                    \* the message indices at which the application was told to
                                 \* surface a memory reference
    students,                    \* students table: email -> row
    reset_tokens,                \* the password reset tokens issued, each by the email of
                                 \* its payload
    bcrypt_truncates             \* whether the installed bcrypt cuts a password after 72
                                 \* bytes (before 5.0) or raises ValueError for it

vars == <<profiles, last_reference_message_idx, call, writers,
          messages, message_timestamps, clock, surfaced, students, reset_tokens,
          bcrypt_truncates>>

\* the session of the chat page
sessionVars == <<messages, message_timestamps, clock, surfaced>>

\* the state of the AuthHandler
authVars == <<students, reset_tokens, bcrypt_truncates>>

-----------------------------------------------------------------------------
(* Strings *)

UpperLetters == "ABCDEFGHIJKLMNOPQRSTUVWXYZ"
LowerLetters == "abcdefghijklmnopqrstuvwxyz"

\* str.lower() on one character (ASCII letters; every other character is kept)
LowerMap == [c \in {SubSeq(UpperLetters, i, i) : i \in 1..26} |->
                LET i == CHOOSE j \in 1..26 : SubSeq(UpperLetters, j, j) = c
                IN  SubSeq(LowerLetters, i, i)]

LowerChar(c) == IF c \in DOMAIN LowerMap THEN LowerMap[c] ELSE c

\* str.lower(), character by character
RECURSIVE LowerRun(_)
LowerRun(s) == IF Len(s) = 0 THEN ""
               ELSE LowerChar(SubSeq(s, 1, 1)) \o LowerRun(SubSeq(s, 2, Len(s)))

\* str.lower(); a long text is lowered half by half, which keeps the nesting shallow
RECURSIVE Lower(_)
Lower(s) == IF Len(s) <= 32 THEN LowerRun(s)
            ELSE Lower(SubSeq(s, 1, Len(s) \div 2)) \o Lower(SubSeq(s, Len(s) \div 2 + 1, Len(s)))

\* p in s
Contains(s, p) == \E i \in 1..(Len(s) - Len(p) + 1) : SubSeq(s, i, i + Len(p) - 1) = p

\* s.startswith(p)
StartsWith(s, p) == Len(p) <= Len(s) /\ SubSeq(s, 1, Len(p)) = p

CharAt(s, i) == SubSeq(s, i, i)

\* the characters str.strip() and str.split() take for whitespace
Whitespace == {" ", "\t", "\n", "\r", "\f"}

RECURSIVE LStrip(_)
LStrip(s) == IF Len(s) > 0 /\ CharAt(s, 1) \in Whitespace
             THEN LStrip(SubSeq(s, 2, Len(s)))
             ELSE s

RECURSIVE RStrip(_)
RStrip(s) == IF Len(s) > 0 /\ CharAt(s, Len(s)) \in Whitespace
             THEN RStrip(SubSeq(s, 1, Len(s) - 1))
             ELSE s

\* str.strip()
Strip(s) == LStrip(RStrip(s))

\* the index of the last character of the word that starts at i
RECURSIVE WordEnd(_, _)
WordEnd(s, i) == IF i < Len(s) /\ CharAt(s, i + 1) \notin Whitespace
                 THEN WordEnd(s, i + 1)
                 ELSE i

\* str.split(), scanning from index i
RECURSIVE SplitFrom(_, _)
SplitFrom(s, i) ==
    IF i > Len(s) THEN <<>>
    ELSE IF CharAt(s, i) \in Whitespace THEN SplitFrom(s, i + 1)
    ELSE <<SubSeq(s, i, WordEnd(s, i))>> \o SplitFrom(s, WordEnd(s, i) + 1)

\* str.split()
Split(s) == SplitFrom(s, 1)

\* " ".join(words)
RECURSIVE Join(_)
Join(words) == IF words = <<>> THEN ""
               ELSE IF Len(words) = 1 THEN words[1]
               ELSE words[1] \o " " \o Join(Tail(words))

\* the characters the regular expression class \w matches
Digits == "0123456789"
WordChars == {CharAt(LowerLetters, i) : i \in 1..26} \cup {CharAt(UpperLetters, i) : i \in 1..26}
             \cup {CharAt(Digits, i) : i \in 1..10} \cup {"_"}

IsWordChar(s, i) == i \in 1..Len(s) /\ CharAt(s, i) \in WordChars

\* \b between the characters i - 1 and i of s
WordBoundary(s, i) == IsWordChar(s, i - 1) # IsWordChar(s, i)

\* re.compile(r'\b' + re.escape(p) + r'\b', re.IGNORECASE).search(s)
SearchWord(s, p) ==
    \E i \in 1..(Len(s) - Len(p) + 1) :
        /\ Lower(SubSeq(s, i, i + Len(p) - 1)) = Lower(p)
        /\ WordBoundary(s, i)
        /\ WordBoundary(s, i + Len(p))

\* the least index of a non-empty set of indices
Least(S) == CHOOSE m \in S : \A n \in S : m <= n

-----------------------------------------------------------------------------
(* conversation/constants.py *)

\* the members of the enum ConversationState, by name
ConversationState ==
    {"OUT_OF_SCOPE", "CONFUSED", "VALIDATION_SEEKING", "SELF_REFLECTION", "CAREER_CURIOSITY",
     "COMPARISON", "INFORMATION_SEEKING", "GREETING"}

\* OUT_OF_SCOPE_PATTERNS: the categories in order, each with its keywords
OUT_OF_SCOPE_PATTERNS ==
    <<<<"mental_health",
         <<"depressed", "depression", "anxiety", "anxious", "suicide", "self-harm",
            "self harm", "cutting", "kill myself", "want to die", "panic attack",
            "mental health", "therapy", "therapist", "stressed", "overwhelmed", "can't cope",
            "breaking down">>>>,
      <<"relationships",
         <<"boyfriend", "girlfriend", "dating", "crush", "love life", "breakup", "broke up",
            "relationship advice", "ex-", "my ex", "cheating", "cheated">>>>,
      <<"family",
         <<"parents fighting", "divorce", "family problems", "abuse", "hitting me",
            "beats me", "scared of my parents">>>>,
      <<"politics_religion",
         <<"politics", "political", "election", "vote", "government", "religion", "religious",
            "god", "pray", "muslim", "hindu", "christian", "caste", "reservation">>>>,
      <<"explicit",
         <<"sex", "porn", "naked", "nude">>>>,
      <<"violence",
         <<"fight", "violence", "weapon", "gun", "knife", "hurt someone">>>>>>

CONFUSION_PATTERNS ==
    <<"i don't know", "i dont know", "idk", "i'm confused", "im confused", "confused",
      "i have no idea", "no idea", "i'm lost", "im lost", "lost", "what should i do",
      "help me", "i'm not sure", "im not sure", "not sure", "don't understand",
      "dont understand", "everything is confusing", "so confused", "no clue", "clueless">>

VALIDATION_PATTERNS ==
    <<"am i good enough", "can i become", "will i be able to", "is it bad if",
      "is it okay if", "is it wrong", "should i", "do you think i can",
      "am i smart enough", "am i capable", "is it too late", "is it possible for me",
      "can someone like me", "people like me", "am i making a mistake",
      "is this a bad choice">>

SELF_REFLECTION_PATTERNS ==
    <<"i like", "i love", "i enjoy", "i hate", "i don't like", "i dislike",
      "i'm good at", "im good at", "i am good at", "i'm bad at", "im bad at",
      "i am bad at", "i prefer", "i find", "i feel", "interests me", "bores me",
      "i want to", "i wish", "i hope">>

CAREER_PATTERNS ==
    <<"what does a", "what do", "tell me about", "how to become", "how do i become",
      "what is it like to be", "what's it like", "career in", "job as", "work as",
      "day in the life", "typical day">>

COMPARISON_PATTERNS ==
    <<" vs ", " versus ", " or ", "which is better", "what's better", "whats better",
      "difference between", "compare", "should i choose", "science or commerce",
      "engineering or", "doctor or", "better option">>

INFORMATION_PATTERNS ==
    <<"how much", "salary", "pay", "income", "earn", "entrance exam", "exam", "jee",
      "neet", "cat", "clat", "college", "university", "iit", "nit", "aiims", "fee",
      "fees", "cost", "tuition", "eligibility", "qualification", "degree", "required",
      "years", "duration", "how long">>

GREETING_PATTERNS ==
    <<"hi", "hello", "hey", "hii", "hiii", "sup", "yo", "hola", "namaste",
      "good morning", "good afternoon", "good evening", "what's up", "whats up", "howdy">>

-----------------------------------------------------------------------------
(* StateDetector *)

\* Python's None, spelled in braces like the characters outside ASCII: no text is spelled so
None == "{None}"

\* text.lower().strip()
normalize_text(text) == Strip(Lower(text))

\* StateDetector._check_patterns
check_patterns(text, patterns) ==
    LET text_lower == normalize_text(text)
    IN  \E k \in DOMAIN patterns : Contains(text_lower, Lower(patterns[k]))

\* StateDetector._check_out_of_scope: the first category one of whose keywords is found
check_out_of_scope(text) ==
    LET text_lower == normalize_text(text)
        found == {c \in DOMAIN OUT_OF_SCOPE_PATTERNS :
                     \E k \in DOMAIN OUT_OF_SCOPE_PATTERNS[c][2] :
                         SearchWord(text_lower, OUT_OF_SCOPE_PATTERNS[c][2][k])}
    IN  IF found = {} THEN None ELSE OUT_OF_SCOPE_PATTERNS[Least(found)][1]

\* _is_greeting looking for the phrase anywhere in a message of any length
is_greeting_AnyLength(text) == check_patterns(text, GREETING_PATTERNS)

\* StateDetector._is_greeting
is_greeting(text) ==
    LET text_lower == normalize_text(text)
    IN  IF Len(Split(text_lower)) <= 3
        THEN check_patterns(text, GREETING_PATTERNS)
        ELSE \E k \in DOMAIN GREETING_PATTERNS :
                 StartsWith(text_lower, Lower(GREETING_PATTERNS[k]))

\* StateDetector._is_confused
is_confused(text) == check_patterns(text, CONFUSION_PATTERNS)

\* StateDetector._is_validation_seeking
is_validation_seeking(text) == check_patterns(text, VALIDATION_PATTERNS)

question_words == <<"what", "how", "which", "where", "when", "why", "?">>
sharing_phrases == <<"i like", "i love", "i enjoy", "i hate", "i'm good at", "i prefer">>

\* _is_self_reflection without the look at question words
is_self_reflection_AnyPhrase(text) == check_patterns(text, SELF_REFLECTION_PATTERNS)

\* StateDetector._is_self_reflection
is_self_reflection(text) ==
    LET text_lower == normalize_text(text)
        is_question == \E k \in DOMAIN question_words : Contains(text_lower, question_words[k])
    IN  IF check_patterns(text, SELF_REFLECTION_PATTERNS)
        THEN \/ ~is_question
             \/ \E k \in DOMAIN sharing_phrases : Contains(text_lower, Lower(sharing_phrases[k]))
        ELSE FALSE

\* StateDetector._is_career_curiosity
is_career_curiosity(text) == check_patterns(text, CAREER_PATTERNS)

\* StateDetector._is_comparison
is_comparison(text) == check_patterns(text, COMPARISON_PATTERNS)

\* StateDetector._is_information_seeking
is_information_seeking(text) == check_patterns(text, INFORMATION_PATTERNS)

\* detect_state in the order of its docstring: career curiosity before comparison
detect_state_CareerFirst(user_input) ==
    IF user_input = None \/ user_input = "" \/ Strip(user_input) = "" THEN "CONFUSED"
    ELSE IF check_out_of_scope(user_input) # None THEN "OUT_OF_SCOPE"
    ELSE IF is_greeting(user_input) THEN "GREETING"
    ELSE IF is_confused(user_input) THEN "CONFUSED"
    ELSE IF is_validation_seeking(user_input) THEN "VALIDATION_SEEKING"
    ELSE IF is_self_reflection(user_input) THEN "SELF_REFLECTION"
    ELSE IF is_career_curiosity(user_input) THEN "CAREER_CURIOSITY"
    ELSE IF is_comparison(user_input) THEN "COMPARISON"
    ELSE IF is_information_seeking(user_input) THEN "INFORMATION_SEEKING"
    ELSE "CAREER_CURIOSITY"

\* detect_state without its last return statement: the function ends and returns None
detect_state_NoDefault(user_input) ==
    IF user_input = None \/ user_input = "" \/ Strip(user_input) = "" THEN "CONFUSED"
    ELSE IF check_out_of_scope(user_input) # None THEN "OUT_OF_SCOPE"
    ELSE IF is_greeting(user_input) THEN "GREETING"
    ELSE IF is_confused(user_input) THEN "CONFUSED"
    ELSE IF is_validation_seeking(user_input) THEN "VALIDATION_SEEKING"
    ELSE IF is_self_reflection(user_input) THEN "SELF_REFLECTION"
    ELSE IF is_comparison(user_input) THEN "COMPARISON"
    ELSE IF is_career_curiosity(user_input) THEN "CAREER_CURIOSITY"
    ELSE IF is_information_seeking(user_input) THEN "INFORMATION_SEEKING"
    ELSE None

\* detect_state testing only "not user_input" at line 160: a message of whitespace goes
\* through the rules
detect_state_WhitespaceToRules(user_input) ==
    IF user_input = None \/ user_input = "" THEN "CONFUSED"
    ELSE IF check_out_of_scope(user_input) # None THEN "OUT_OF_SCOPE"
    ELSE IF is_greeting(user_input) THEN "GREETING"
    ELSE IF is_confused(user_input) THEN "CONFUSED"
    ELSE IF is_validation_seeking(user_input) THEN "VALIDATION_SEEKING"
    ELSE IF is_self_reflection(user_input) THEN "SELF_REFLECTION"
    ELSE IF is_comparison(user_input) THEN "COMPARISON"
    ELSE IF is_career_curiosity(user_input) THEN "CAREER_CURIOSITY"
    ELSE IF is_information_seeking(user_input) THEN "INFORMATION_SEEKING"
    ELSE "CAREER_CURIOSITY"

\* StateDetector.detect_state; conversation_history and student_profile are not read
detect_state(user_input) ==
    IF user_input = None \/ user_input = "" \/ Strip(user_input) = "" THEN "CONFUSED"
    ELSE IF check_out_of_scope(user_input) # None THEN "OUT_OF_SCOPE"
    ELSE IF is_greeting(user_input) THEN "GREETING"
    ELSE IF is_confused(user_input) THEN "CONFUSED"
    ELSE IF is_validation_seeking(user_input) THEN "VALIDATION_SEEKING"
    ELSE IF is_self_reflection(user_input) THEN "SELF_REFLECTION"
    ELSE IF is_comparison(user_input) THEN "COMPARISON"
    ELSE IF is_career_curiosity(user_input) THEN "CAREER_CURIOSITY"
    ELSE IF is_information_seeking(user_input) THEN "INFORMATION_SEEKING"
    ELSE "CAREER_CURIOSITY"

-----------------------------------------------------------------------------
(* MemoryStore *)

TraitKinds == {"interests", "dislikes", "strengths", "challenges"}

\* StudentProfile(student_id=...): every JSON column defaults to "[]"
StudentProfile == [interests |-> <<>>, dislikes |-> <<>>, strengths |-> <<>>,
                   challenges |-> <<>>, career_mentions |-> <<>>]

\* ItemKey without the .lower()
ItemKey_CaseSensitive(item) == IF "content" \in DOMAIN item THEN item.content
                               ELSE IF "career" \in DOMAIN item THEN item.career
                               ELSE ""

\* item.get("content", item.get("career", "")).lower()
ItemKey(item) == Lower(IF "content" \in DOMAIN item THEN item.content
                       ELSE IF "career" \in DOMAIN item THEN item.career
                       ELSE "")

\* item.get("confidence", 0)
ItemConfidence(item) == IF "confidence" \in DOMAIN item THEN item.confidence ELSE 0

\* A Python dict, which keeps insertion order, as a sequence of <<key, value>>.
DictHas(d, k) == \E i \in 1..Len(d) : d[i][1] = k
DictGet(d, k) == d[CHOOSE i \in 1..Len(d) : d[i][1] = k][2]
DictSet(d, k, v) == IF DictHas(d, k)
                    THEN [i \in 1..Len(d) |-> IF d[i][1] = k THEN <<k, v>> ELSE d[i]]
                    ELSE Append(d, <<k, v>>)
DictValues(d) == [i \in 1..Len(d) |-> d[i][2]]

\* the first loop of _merge_items: merged[key] = item for every existing item
RECURSIVE MergeExisting(_, _)
MergeExisting(merged, existing) ==
    IF existing = <<>> THEN merged
    ELSE MergeExisting(DictSet(merged, ItemKey(Head(existing)), Head(existing)),
                       Tail(existing))

\* MergeTakesNew with >= for >
MergeTakesNew_OnTie(merged, item) ==
    \/ ~DictHas(merged, ItemKey(item))
    \/ ItemConfidence(item) >= ItemConfidence(DictGet(merged, ItemKey(item)))

\* MergeTakesNew without the comparison of confidences
MergeTakesNew_Always(merged, item) == TRUE

\* the condition under which an incoming item is stored
MergeTakesNew(merged, item) ==
    \/ ~DictHas(merged, ItemKey(item))
    \/ ItemConfidence(item) > ItemConfidence(DictGet(merged, ItemKey(item)))

\* the second loop of _merge_items
RECURSIVE MergeNew(_, _)
MergeNew(merged, new) ==
    IF new = <<>> THEN merged
    ELSE MergeNew(IF MergeTakesNew(merged, Head(new))
                  THEN DictSet(merged, ItemKey(Head(new)), Head(new))
                  ELSE merged,
                  Tail(new))

\* _merge_items in which an incoming item whose key is stored removes the stored entry
merge_items_PopsOnCollision(existing, new) ==
    SelectSeq(existing, LAMBDA e : \A j \in DOMAIN new : ItemKey(new[j]) # ItemKey(e))
    \o SelectSeq(new, LAMBDA n : \A i \in DOMAIN existing : ItemKey(existing[i]) # ItemKey(n))

\* _merge_items without its first loop: what was stored is dropped
merge_items_OnlyNew(existing, new) == DictValues(MergeNew(<<>>, new))

\* MemoryStore._merge_items
merge_items(existing, new) == DictValues(MergeNew(MergeExisting(<<>>, existing), new))

\* MemoryStore.get_or_create_profile: the table after the call
get_or_create_profile(table, student_id) ==
    IF student_id \in DOMAIN table THEN table
    ELSE [i \in DOMAIN table \cup {student_id} |->
             IF i = student_id THEN StudentProfile ELSE table[i]]

\* one "if extractions.get(kind): profile.kind = self._merge_items(...)" of update_profile
MergeKind(row, extractions, kind) ==
    IF extractions[kind] # <<>> THEN merge_items(row[kind], extractions[kind])
    ELSE row[kind]

\* MemoryStore.update_profile: the table after the commit
UpdatedTable(table, student_id, extractions) ==
    LET created == get_or_create_profile(table, student_id)
    IN  [created EXCEPT ![student_id] =
            [kind \in DOMAIN StudentProfile |-> MergeKind(created[student_id], extractions, kind)]]

\* [x.get(field) for x in items if x.get(field)]
RECURSIVE FieldsOf(_, _)
FieldsOf(items, field) ==
    IF items = <<>> THEN <<>>
    ELSE IF field \in DOMAIN Head(items) /\ Head(items)[field] # ""
         THEN <<Head(items)[field]>> \o FieldsOf(Tail(items), field)
         ELSE FieldsOf(Tail(items), field)

\* the career mentions of every sentiment
NotNegative_KeepsAll(items) == items

\* [c for c in profile.career_mentions if c.get("sentiment") != "negative"]
RECURSIVE NotNegative(_)
NotNegative(items) ==
    IF items = <<>> THEN <<>>
    ELSE IF "sentiment" \in DOMAIN Head(items) /\ Head(items).sentiment = "negative"
         THEN NotNegative(Tail(items))
         ELSE <<Head(items)>> \o NotNegative(Tail(items))

\* MemoryStore.get_profile_summary: the dict returned
get_profile_summary(table, student_id) ==
    LET profile == get_or_create_profile(table, student_id)[student_id]
    IN  [student_id |-> student_id,
         interests |-> FieldsOf(profile.interests, "content"),
         dislikes |-> FieldsOf(profile.dislikes, "content"),
         strengths |-> FieldsOf(profile.strengths, "content"),
         challenges |-> FieldsOf(profile.challenges, "content"),
         careers_discussed |-> FieldsOf(NotNegative(profile.career_mentions), "career")]

-----------------------------------------------------------------------------
(* ProfileExtractor *)

\* The extraction patterns.  Each regular expression is a literal prefix, the captured
\* span (.+?) and a literal suffix; pre and post list the alternatives of the prefix and
\* of the suffix in the order the regular expression tries them, and eos says whether $
\* is one of the alternatives of the suffix.
INTEREST_PATTERNS ==
    <<\* i (?:really )?(?:like|love|enjoy) (?:to )?(.+?)(?:\.|,|$|!)
      [pre |-> <<"i really like to ", "i really like ", "i really love to ",
                "i really love ", "i really enjoy to ", "i really enjoy ", "i like to ",
                "i like ", "i love to ", "i love ", "i enjoy to ", "i enjoy ">>,
       post |-> <<".", ",", "!">>,
       eos |-> TRUE],
      \* i'm (?:really )?interested in (.+?)(?:\.|,|$|!)
      [pre |-> <<"i'm really interested in ", "i'm interested in ">>,
       post |-> <<".", ",", "!">>,
       eos |-> TRUE],
      \* i find (.+?) (?:interesting|fascinating|exciting)
      [pre |-> <<"i find ">>,
       post |-> <<" interesting", " fascinating", " exciting">>,
       eos |-> FALSE],
      \* (.+?) is (?:really )?(?:fun|interesting|exciting) (?:to me|for me)?
      [pre |-> <<"">>,
       post |-> <<" is really fun to me", " is really fun for me", " is really fun ",
                 " is really interesting to me", " is really interesting for me",
                 " is really interesting ", " is really exciting to me",
                 " is really exciting for me", " is really exciting ", " is fun to me",
                 " is fun for me", " is fun ", " is interesting to me",
                 " is interesting for me", " is interesting ", " is exciting to me",
                 " is exciting for me", " is exciting ">>,
       eos |-> FALSE],
      \* i've always (?:liked|loved|enjoyed) (.+?)(?:\.|,|$|!)
      [pre |-> <<"i've always liked ", "i've always loved ", "i've always enjoyed ">>,
       post |-> <<".", ",", "!">>,
       eos |-> TRUE]>>

DISLIKE_PATTERNS ==
    <<\* i (?:really )?(?:hate|dislike|don't like) (.+?)(?:\.|,|$|!)
      [pre |-> <<"i really hate ", "i really dislike ", "i really don't like ", "i hate ",
                "i dislike ", "i don't like ">>,
       post |-> <<".", ",", "!">>,
       eos |-> TRUE],
      \* i'm not (?:really )?interested in (.+?)(?:\.|,|$|!)
      [pre |-> <<"i'm not really interested in ", "i'm not interested in ">>,
       post |-> <<".", ",", "!">>,
       eos |-> TRUE],
      \* (.+?) is (?:boring|dull|not for me)
      [pre |-> <<"">>,
       post |-> <<" is boring", " is dull", " is not for me">>,
       eos |-> FALSE],
      \* i (?:can't stand|avoid) (.+?)(?:\.|,|$|!)
      [pre |-> <<"i can't stand ", "i avoid ">>,
       post |-> <<".", ",", "!">>,
       eos |-> TRUE]>>

STRENGTH_PATTERNS ==
    <<\* i'm (?:really )?good at (.+?)(?:\.|,|$|!)
      [pre |-> <<"i'm really good at ", "i'm good at ">>,
       post |-> <<".", ",", "!">>,
       eos |-> TRUE],
      \* i'm (?:quite )?skilled (?:at|in) (.+?)(?:\.|,|$|!)
      [pre |-> <<"i'm quite skilled at ", "i'm quite skilled in ", "i'm skilled at ",
                "i'm skilled in ">>,
       post |-> <<".", ",", "!">>,
       eos |-> TRUE],
      \* i do well (?:at|in|with) (.+?)(?:\.|,|$|!)
      [pre |-> <<"i do well at ", "i do well in ", "i do well with ">>,
       post |-> <<".", ",", "!">>,
       eos |-> TRUE],
      \* my (?:strength|strong point) is (.+?)(?:\.|,|$|!)
      [pre |-> <<"my strength is ", "my strong point is ">>,
       post |-> <<".", ",", "!">>,
       eos |-> TRUE],
      \* people say i'm good at (.+?)(?:\.|,|$|!)
      [pre |-> <<"people say i'm good at ">>,
       post |-> <<".", ",", "!">>,
       eos |-> TRUE]>>

CHALLENGE_PATTERNS ==
    <<\* i'm (?:not (?:really )?)?(?:bad|weak) at (.+?)(?:\.|,|$|!)
      [pre |-> <<"i'm not really bad at ", "i'm not really weak at ", "i'm not bad at ",
                "i'm not weak at ", "i'm bad at ", "i'm weak at ">>,
       post |-> <<".", ",", "!">>,
       eos |-> TRUE],
      \* i struggle with (.+?)(?:\.|,|$|!)
      [pre |-> <<"i struggle with ">>,
       post |-> <<".", ",", "!">>,
       eos |-> TRUE],
      \* (.+?) is (?:difficult|hard|challenging) for me
      [pre |-> <<"">>,
       post |-> <<" is difficult for me", " is hard for me", " is challenging for me">>,
       eos |-> FALSE],
      \* i (?:can't|cannot) (?:do|handle) (.+?) well
      [pre |-> <<"i can't do ", "i can't handle ", "i cannot do ", "i cannot handle ">>,
       post |-> <<" well">>,
       eos |-> FALSE]>>

CAREER_KEYWORDS ==
    <<"engineer", "doctor", "lawyer", "teacher", "developer", "designer", "architect",
      "scientist", "writer", "artist", "musician", "accountant", "manager", "consultant",
      "analyst", "programmer", "pilot", "chef", "entrepreneur", "psychologist",
      "journalist", "photographer", "software", "marketing", "finance", "medicine",
      "law", "business">>

\* p occurs in s at index i
StartsAt(s, i, p) == i + Len(p) - 1 <= Len(s) /\ SubSeq(s, i, i + Len(p) - 1) = p

\* the least index from which on p occurs in s at it, 0 when there is none
FirstAt(s, from, p) ==
    LET found == {i \in from..Len(s) : StartsAt(s, i, p)}
    IN  IF found = {} THEN 0 ELSE Least(found)

\* sep.join(words)
RECURSIVE JoinWith(_, _)
JoinWith(words, sep) == IF words = <<>> THEN ""
                        ELSE IF Len(words) = 1 THEN words[1]
                        ELSE words[1] \o sep \o JoinWith(Tail(words), sep)

\* $ after the character e of s: the end of s, or just before its final newline
AtEnd(s, e) == e = Len(s) \/ (e = Len(s) - 1 /\ CharAt(s, Len(s)) = "\n")

\* the indices at which a span captured from q can end: no newline in it, the suffix next
CaptureEnds(s, q, pattern) ==
    {e \in q..Len(s) :
        /\ \A j \in q..e : CharAt(s, j) # "\n"
        /\ \/ pattern.eos /\ AtEnd(s, e)
           \/ \E k \in DOMAIN pattern.post : StartsAt(s, e + 1, pattern.post[k])}

\* the alternatives of the prefix with which the pattern matches at index p
MatchingPrefixes(s, p, pattern) ==
    {k \in DOMAIN pattern.pre :
        /\ StartsAt(s, p, pattern.pre[k])
        /\ CaptureEnds(s, p + Len(pattern.pre[k]), pattern) # {}}

\* pattern.match at index p of s (a match exists): the captured span from..to and the
\* index last of the last character matched
MatchAt(s, p, pattern) ==
    LET q == p + Len(pattern.pre[Least(MatchingPrefixes(s, p, pattern))])
        e == Least(CaptureEnds(s, q, pattern))
        suffixes == {k \in DOMAIN pattern.post : StartsAt(s, e + 1, pattern.post[k])}
    IN  [from |-> q, to |-> e,
         last |-> IF suffixes = {} THEN e ELSE e + Len(pattern.post[Least(suffixes)])]

\* pattern.findall(message) under re.IGNORECASE, scanning from index p
RECURSIVE FindAllFrom(_, _, _, _)
FindAllFrom(message, message_lower, p, pattern) ==
    IF p > Len(message) THEN <<>>
    ELSE IF MatchingPrefixes(message_lower, p, pattern) = {}
         THEN FindAllFrom(message, message_lower, p + 1, pattern)
         ELSE LET m == MatchAt(message_lower, p, pattern)
              IN  <<SubSeq(message, m.from, m.to)>>
                      \o FindAllFrom(message, message_lower, m.last + 1, pattern)

\* pattern.findall(message)
findall(pattern, message) == FindAllFrom(message, Lower(message), 1, pattern)

fillers == {"to", "the", "a", "an", "doing", "being", "that", "this"}

\* while words and words[0].lower() in fillers: words.pop(0)
RECURSIVE DropFillers(_)
DropFillers(words) == IF words # <<>> /\ Lower(Head(words)) \in fillers
                      THEN DropFillers(Tail(words))
                      ELSE words

\* ProfileExtractor._clean_extraction
clean_extraction(text) == Strip(Join(DropFillers(Split(Strip(text)))))

\* the items one pattern's matches add to a category: confidence 0.8
RECURSIVE ItemsOf(_, _)
ItemsOf(matches, now) ==
    IF matches = <<>> THEN <<>>
    ELSE LET cleaned == clean_extraction(Head(matches))
         IN  (IF cleaned # "" /\ Len(cleaned) > 2
              THEN <<[content |-> cleaned, confidence |-> 8, extracted_at |-> now]>>
              ELSE <<>>) \o ItemsOf(Tail(matches), now)

\* the items the patterns of one category add, pattern by pattern
RECURSIVE ExtractCategory(_, _, _)
ExtractCategory(patterns, message, now) ==
    IF patterns = <<>> THEN <<>>
    ELSE ItemsOf(findall(Head(patterns), message), now)
             \o ExtractCategory(Tail(patterns), message, now)

positive_indicators == <<"like", "love", "want", "interested", "curious", "dream", "hope">>
negative_indicators == <<"hate", "dislike", "don't want", "not interested", "boring">>

\* ProfileExtractor._determine_career_sentiment
determine_career_sentiment(context) ==
    IF \E k \in DOMAIN positive_indicators : Contains(context, positive_indicators[k])
    THEN "positive"
    ELSE IF \E k \in DOMAIN negative_indicators : Contains(context, negative_indicators[k])
    THEN "negative"
    ELSE "neutral"

context_window == 50

\* s[lo:hi] of Python for 0 <= lo: the characters lo+1 .. min(hi, len(s))
Slice(s, lo, hi) == SubSeq(s, lo + 1, IF hi < Len(s) THEN hi ELSE Len(s))

Max0(n) == IF n < 0 THEN 0 ELSE n

\* the career mention of one keyword found in the message
CareerMention(keyword, message, now) ==
    LET message_lower == Lower(message)
        idx == Least({i \in 1..Len(message_lower) : StartsAt(message_lower, i, keyword)}) - 1
        context == Slice(message_lower, Max0(idx - context_window), idx + context_window)
    IN  [career |-> keyword,
         sentiment |-> determine_career_sentiment(context),
         context |-> Slice(message, Max0(idx - 30), idx + 30),
         extracted_at |-> now]

\* the career mentions of the keywords from the k-th on
RECURSIVE CareerMentionsFrom(_, _, _)
CareerMentionsFrom(k, message, now) ==
    IF k > Len(CAREER_KEYWORDS) THEN <<>>
    ELSE (IF Contains(Lower(message), CAREER_KEYWORDS[k])
          THEN <<CareerMention(CAREER_KEYWORDS[k], message, now)>>
          ELSE <<>>) \o CareerMentionsFrom(k + 1, message, now)

\* ProfileExtractor.extract_from_message, datetime.now() being now
extract_from_message(message, now) ==
    [interests |-> ExtractCategory(INTEREST_PATTERNS, message, now),
     dislikes |-> ExtractCategory(DISLIKE_PATTERNS, message, now),
     strengths |-> ExtractCategory(STRENGTH_PATTERNS, message, now),
     challenges |-> ExtractCategory(CHALLENGE_PATTERNS, message, now),
     career_mentions |-> CareerMentionsFrom(1, message, now)]

-----------------------------------------------------------------------------
(* MemoryReferencer *)

\* min_messages_between_refs: int = 5
min_messages_between == 5

\* random.random() < 0.4, in tenths
reference_chance == 4

\* self._last_reference_message_idx.get(student_id, -self.min_messages_between)
LastRefIdx(refs, student_id) ==
    IF student_id \in DOMAIN refs THEN refs[student_id] ELSE -min_messages_between

\* RateLimited letting a reference through one message early
RateLimited_OffByOne(refs, student_id, current_message_idx) ==
    current_message_idx - LastRefIdx(refs, student_id) < min_messages_between - 1

\* current_message_idx - last_ref_idx < self.min_messages_between
RateLimited(refs, student_id, current_message_idx) ==
    current_message_idx - LastRefIdx(refs, student_id) < min_messages_between

\* HasMemories counting the challenges too
HasMemories_WithChallenges(summary) ==
    \/ summary.interests # <<>>
    \/ summary.dislikes # <<>>
    \/ summary.strengths # <<>>
    \/ summary.challenges # <<>>
    \/ summary.careers_discussed # <<>>

\* has_memories of should_reference_memory
HasMemories(summary) ==
    \/ summary.interests # <<>>
    \/ summary.dislikes # <<>>
    \/ summary.strengths # <<>>
    \/ summary.careers_discussed # <<>>

\* what should_reference_memory returns when random.random() returns draw tenths
ShouldReference(table, refs, student_id, current_message_idx, draw) ==
    IF RateLimited(refs, student_id, current_message_idx) THEN FALSE
    ELSE IF ~HasMemories(get_profile_summary(table, student_id)) THEN FALSE
    ELSE draw < reference_chance

\* MemoryReferencer.REFERENCE_TEMPLATES
REFERENCE_TEMPLATES ==
    [interest |-> <<"Earlier you mentioned you enjoy {content}...",
                    "I remember you said you like {content}...",
                    "You told me before that you find {content} interesting...",
                    "Since you mentioned enjoying {content}...">>,
     dislike |-> <<"I know you mentioned not enjoying {content}...",
                   "Since you said {content} isn't really your thing...",
                   "You mentioned before that you don't particularly like {content}...">>,
     strength |-> <<"You mentioned being good at {content}...",
                    "Since you said you're skilled at {content}...",
                    "I remember you saying you do well in {content}...">>,
     challenge |-> <<"You mentioned finding {content} challenging...",
                     "Since you said {content} is difficult for you...">>,
     career |-> <<"Last time we talked about {content}...",
                  "When we discussed {content} before...",
                  "You seemed interested in {content} earlier...">>]

\* template.format(content=content)
Format(template, content) ==
    LET at == FirstAt(template, 1, "{content}")
    IN  SubSeq(template, 1, at - 1) \o content \o SubSeq(template, at + 9, Len(template))

\* random.choice(items) when the generator picks number n
Choice(items, n) == items[(n % Len(items)) + 1]

\* MemoryReferencer._generate_reference
generate_reference(memory_type, content, n) ==
    Format(Choice(REFERENCE_TEMPLATES[memory_type], n), content)

common_words == {"i", "the", "a", "an", "is", "are", "was", "were", "to", "in", "on", "at", "for"}

\* the elements of a list
SetOf(items) == {items[i] : i \in DOMAIN items}

\* MemoryReferencer._is_relevant
is_relevant(memory_content, current_context) ==
    LET memory_words == SetOf(Split(Lower(memory_content)))
        context_words == SetOf(Split(current_context))
        overlap == memory_words \cap context_words
        meaningful_overlap == overlap \ common_words
    IN  Cardinality(meaningful_overlap) > 0

\* the chance of 0.3 of a general interest reference, in tenths
fallback_chance == 3

\* x or "" of an optional argument
OrEmpty(argument) == IF argument = <<>> THEN "" ELSE argument[1]

\* get_relevant_reference looking at the interests before the careers
RelevantReference_InterestFirst(summary, current_topic, current_input, random) ==
    LET current_context_lower == Lower(OrEmpty(current_topic) \o " " \o OrEmpty(current_input))
        careers == {i \in DOMAIN summary.careers_discussed :
                       Contains(current_context_lower, Lower(summary.careers_discussed[i]))}
        interests == {i \in DOMAIN summary.interests :
                         is_relevant(summary.interests[i], current_context_lower)}
    IN  IF interests # {}
        THEN <<generate_reference("interest", summary.interests[Least(interests)],
                                  random.template), "interest">>
        ELSE IF careers # {}
        THEN <<generate_reference("career", summary.careers_discussed[Least(careers)],
                                  random.template), "career">>
        ELSE <<>>

\* MemoryReferencer.get_relevant_reference: <<reference, memory_type>>, <<>> for None.
\* random holds what the generator yields: fallback (random.random() in tenths), interest
\* and template (the picks of random.choice).
RelevantReference(summary, current_topic, current_input, random) ==
    LET current_context_lower == Lower(OrEmpty(current_topic) \o " " \o OrEmpty(current_input))
        careers == {i \in DOMAIN summary.careers_discussed :
                       Contains(current_context_lower, Lower(summary.careers_discussed[i]))}
        interests == {i \in DOMAIN summary.interests :
                         is_relevant(summary.interests[i], current_context_lower)}
        strengths == {i \in DOMAIN summary.strengths :
                         is_relevant(summary.strengths[i], current_context_lower)}
    IN  IF careers # {}
        THEN <<generate_reference("career", summary.careers_discussed[Least(careers)],
                                  random.template), "career">>
        ELSE IF interests # {}
        THEN <<generate_reference("interest", summary.interests[Least(interests)],
                                  random.template), "interest">>
        ELSE IF strengths # {}
        THEN <<generate_reference("strength", summary.strengths[Least(strengths)],
                                  random.template), "strength">>
        ELSE IF summary.interests # <<>> /\ random.fallback < fallback_chance
        THEN <<generate_reference("interest", Choice(summary.interests, random.interest),
                                  random.template), "interest">>
        ELSE <<>>

\* MemoryReferencer.build_memory_context
MemoryContext(summary, include_reference, current_topic, current_input, random) ==
    LET reference == RelevantReference(summary, current_topic, current_input, random)
        context_parts ==
            (IF summary.interests # <<>>
             THEN <<"Student's interests: " \o JoinWith(Slice(summary.interests, 0, 5), ", ")>>
             ELSE <<>>)
            \o (IF summary.dislikes # <<>>
                THEN <<"Student's dislikes: " \o JoinWith(Slice(summary.dislikes, 0, 3), ", ")>>
                ELSE <<>>)
            \o (IF summary.strengths # <<>>
                THEN <<"Student's strengths: " \o JoinWith(Slice(summary.strengths, 0, 3), ", ")>>
                ELSE <<>>)
            \o (IF summary.careers_discussed # <<>>
                THEN <<"Careers previously discussed: "
                       \o JoinWith(Slice(summary.careers_discussed, 0, 5), ", ")>>
                ELSE <<>>)
            \o (IF include_reference /\ reference # <<>>
                THEN <<"\nYou may naturally reference: '" \o reference[1] \o "'",
                       "(Only use this if it fits naturally in your response)">>
                ELSE <<>>)
    IN  JoinWith(context_parts, "\n")

-----------------------------------------------------------------------------
(* utils *)

\* <script[^>]*>.*?</script> matched at index p of s: the index of its last character,
\* 0 when it does not match there
ScriptEnd(s, p) ==
    IF ~StartsAt(Lower(s), p, "<script") THEN 0
    ELSE LET opened == FirstAt(s, p + Len("<script"), ">")
             closing == IF opened = 0 THEN 0 ELSE FirstAt(Lower(s), opened + 1, "</script>")
         IN  IF closing = 0 THEN 0 ELSE closing + Len("</script>") - 1

\* <[^>]+> matched at index p of s: the index of its last character, 0 when it does not
\* match there
TagEnd(s, p) ==
    IF ~StartsAt(s, p, "<") \/ p + 1 > Len(s) \/ CharAt(s, p + 1) = ">" THEN 0
    ELSE FirstAt(s, p + 1, ">")

\* re.sub(r'<script[^>]*>.*?</script>', '', text, flags=re.IGNORECASE | re.DOTALL)
RECURSIVE RemoveScripts(_, _)
RemoveScripts(s, p) ==
    IF p > Len(s) THEN ""
    ELSE IF ScriptEnd(s, p) = 0 THEN CharAt(s, p) \o RemoveScripts(s, p + 1)
    ELSE RemoveScripts(s, ScriptEnd(s, p) + 1)

\* re.sub(r'<[^>]+>', '', text)
RECURSIVE RemoveTags(_, _)
RemoveTags(s, p) ==
    IF p > Len(s) THEN ""
    ELSE IF TagEnd(s, p) = 0 THEN CharAt(s, p) \o RemoveTags(s, p + 1)
    ELSE RemoveTags(s, TagEnd(s, p) + 1)

max_length == 2000

\* sanitize_input
sanitize_input(text) ==
    IF text = "" THEN ""
    ELSE LET joined == Join(Split(text))
             capped == IF Len(joined) > max_length
                       THEN SubSeq(joined, 1, max_length) \o "..."
                       ELSE joined
         IN  Strip(RemoveTags(RemoveScripts(capped, 1), 1))

RATE_LIMIT_MESSAGES == 30
RATE_LIMIT_WINDOW == 60

\* [ts for ts in message_timestamps if now - ts < RATE_LIMIT_WINDOW]
RECURSIVE InWindow(_, _)
InWindow(timestamps, now) ==
    IF timestamps = <<>> THEN <<>>
    ELSE (IF now - Head(timestamps) < RATE_LIMIT_WINDOW THEN <<Head(timestamps)>> ELSE <<>>)
             \o InWindow(Tail(timestamps), now)

\* check_rate_limit letting a message through with the window full
check_rate_limit_OneMore(timestamps, now) ==
    Len(InWindow(timestamps, now)) <= RATE_LIMIT_MESSAGES

\* check_rate_limit at time now: what it returns
check_rate_limit(timestamps, now) == Len(InWindow(timestamps, now)) < RATE_LIMIT_MESSAGES

\* check_rate_limit at time now: the message_timestamps it leaves
TimestampsAfter(timestamps, now) ==
    IF check_rate_limit(timestamps, now) THEN Append(InWindow(timestamps, now), now)
    ELSE InWindow(timestamps, now)

max_retries == 3

\* exceptions: tuple = (ConnectionError, TimeoutError)
Retried == {"ConnectionError", "TimeoutError"}

\* the class an exception class of the model derives from
ExceptionBase(exception) ==
    CASE exception = "ConnectionRefusedError" -> "ConnectionError"
      [] exception \in {"ConnectionError", "TimeoutError"} -> "OSError"
      [] OTHER -> "Exception"

\* an except clause that catches whatever is raised
Caught_Any(outcome) == outcome \in {"ConnectionRefusedError", "ConnectionError", "TimeoutError",
                                    "ValueError"}

\* "except exceptions as e" catching what the call did: an instance of a listed class
Caught(outcome) == outcome \in Retried \/ ExceptionBase(outcome) \in Retried

\* the loop of retry_with_backoff from one attempt on; outcomes[k] is what the k-th call
\* of func() does: the name of the exception for a raise, anything else for the value
\* returned. After the loop last_exception is raised, which is None when the loop ran no
\* call ("raise None" is a TypeError).
RECURSIVE RetryFrom(_, _, _)
RetryFrom(outcomes, retries, attempt) ==
    IF attempt > retries
    THEN [outcome |-> IF retries = 0 THEN "TypeError" ELSE outcomes[retries],
          calls |-> retries]
    ELSE IF Caught(outcomes[attempt])
    THEN RetryFrom(outcomes, retries, attempt + 1)
    ELSE [outcome |-> outcomes[attempt], calls |-> attempt]

\* retry_with_backoff(func), max_retries left to its default: how it ends and how many
\* times it called func
retry_with_backoff(outcomes) == RetryFrom(outcomes, max_retries, 1)

-----------------------------------------------------------------------------
(* app.py *)

\* the characters U+00E2 U+20AC U+201D of constants.py line 32, spelled in ASCII
MisdecodedDash == "{U+00E2}{U+20AC}{U+201D}"

CANONICAL_OUT_OF_SCOPE_RESPONSE ==
    "I'm sorry " \o MisdecodedDash \o " I don't have the right context to answer this."
    \o "\n\n"
    \o "I can help with careers, education, and future planning, but for this it would be better to speak with a trusted adult like a teacher or parent."
    \o "\n\n"
    \o "If you'd like, we can talk about your studies, career options, or future plans."

\* the fallback responses of the chat input handler
FallbackResponse(current_state) ==
    IF current_state = "GREETING"
    THEN "Hey! Good to see you. I'm Buddy AI - your career exploration buddy. What's on your mind?"
    ELSE IF current_state = "CONFUSED"
    THEN "It's totally normal to feel confused about this. Let's start simple - what's one thing you enjoy doing?"
    ELSE IF current_state = "VALIDATION_SEEKING"
    THEN "That's a thoughtful question. Careers aren't about being 'good enough' - they're about finding what fits you."
    ELSE "That's a great question! Could you tell me more about what interests you about this?"

ErrorResponse == "Something went wrong. Could you try that again?"

\* any(extractions.values())
AnyExtracted(extractions) == \E kind \in DOMAIN extractions : extractions[kind] # <<>>

\* the out-of-scope branch never taken
HandlesOutOfScope_Never(current_state) == FALSE

\* if current_state == ConversationState.OUT_OF_SCOPE
HandlesOutOfScope(current_state) == current_state = "OUT_OF_SCOPE"

-----------------------------------------------------------------------------
(* prompts/guardrails.py *)

\* A character outside ASCII is spelled {U+hhhh}, its code point in hexadecimal; every
\* other character of a response is an ASCII character written as itself.
EmDash == "{U+2014}"

HexDigits == "0123456789ABCDEF"
HexDigit(c) == (CHOOSE i \in 1..Len(HexDigits) : CharAt(HexDigits, i) = c) - 1

RECURSIVE HexValue(_)
HexValue(s) == IF s = "" THEN 0
               ELSE HexValue(SubSeq(s, 1, Len(s) - 1)) * 16 + HexDigit(CharAt(s, Len(s)))

\* the index of the last character of the spelling of the character that starts at i
CodePointEnd(text, i) ==
    LET closed == FirstAt(text, i, "}")
    IN  IF StartsAt(text, i, "{U+") /\ closed > 0 THEN closed ELSE i

FORBIDDEN_RECOMMENDATION_PHRASES ==
    <<"you should become", "you should be a", "you would be a great",
      "you would make a great", "you are suited for", "you're suited for",
      "you are perfect for", "you're perfect for", "i recommend", "i suggest you become",
      "you should pursue", "you should definitely", "you must become">>

FORBIDDEN_CORPORATE_PHRASES ==
    <<"unlock your potential", "chase your dreams", "synergy", "leverage your",
      "optimize your", "maximize your", "strategic career", "career trajectory",
      "professional development", "skill acquisition", "paradigm shift">>

FORBIDDEN_JUDGMENTAL_PHRASES ==
    <<"you're not smart enough", "you're not good enough", "that's a bad choice",
      "that's a wrong choice", "you shouldn't", "that's unrealistic", "you can't become">>

\* the ranges of the character class of emoji_pattern, in the order of the source
emoji_pattern ==
    <<<<"1F600", "1F64F">>, <<"1F300", "1F5FF">>, <<"1F680", "1F6FF">>, <<"1F700", "1F77F">>,
      <<"1F780", "1F7FF">>, <<"1F800", "1F8FF">>, <<"1F900", "1F9FF">>, <<"1FA00", "1FA6F">>,
      <<"1FA70", "1FAFF">>, <<"2702", "27B0">>, <<"24C2", "1F251">>>>

\* the character that starts at i is in the class of emoji_pattern; an ASCII character
\* is below every range of the class
InEmojiClass(text, i) ==
    LET e == CodePointEnd(text, i)
        code == HexValue(SubSeq(text, i + Len("{U+"), e - 1))
    IN  /\ e > i
        /\ \E r \in DOMAIN emoji_pattern :
              /\ HexValue(emoji_pattern[r][1]) <= code
              /\ code <= HexValue(emoji_pattern[r][2])

\* the character that starts at i follows a character of the class
FollowsEmoji(text, i) ==
    /\ i > 1
    /\ CharAt(text, i - 1) = "}"
    /\ \E j \in 1..(i - 1) : InEmojiClass(text, j) /\ CodePointEnd(text, j) = i - 1

\* len(emoji_pattern.findall(text)): the class is followed by +, so one match takes a whole
\* run of adjacent characters of the class, and the matches are counted where they start
count_emojis(text) ==
    Cardinality({i \in 1..Len(text) : InEmojiClass(text, i) /\ ~FollowsEmoji(text, i)})

\* text.count('?')
count_questions(text) == Cardinality({i \in 1..Len(text) : CharAt(text, i) = "?"})

\* text.split(sep)
RECURSIVE SplitOn(_, _)
SplitOn(text, sep) ==
    LET p == FirstAt(text, 1, sep)
    IN  IF p = 0 THEN <<text>>
        ELSE <<SubSeq(text, 1, p - 1)>> \o SplitOn(SubSeq(text, p + Len(sep), Len(text)), sep)

count_paragraphs(text) ==
    Len(SelectSeq(SplitOn(text, "\n\n"), LAMBDA p : Strip(p) # ""))

check_forbidden_phrases(text) ==
    LET text_lower == Lower(text)
        all_forbidden == FORBIDDEN_RECOMMENDATION_PHRASES \o FORBIDDEN_CORPORATE_PHRASES
                         \o FORBIDDEN_JUDGMENTAL_PHRASES
    IN  SelectSeq(all_forbidden, LAMBDA phrase : Contains(text_lower, phrase))

SensitiveStates == {"CONFUSED", "VALIDATION_SEEKING", "SELF_REFLECTION"}

\* a limit of two questions in every state
MaxQuestions_AlwaysTwo(state) == 2

\* max_questions of validate_response (lines 148-155)
MaxQuestions(state) ==
    IF state = "OUT_OF_SCOPE" THEN 0
    ELSE IF state \in SensitiveStates THEN 1
    ELSE 2

get_max_questions_for_state(state) ==
    IF state = "OUT_OF_SCOPE" THEN 0
    ELSE IF state \in SensitiveStates THEN 1
    ELSE 2

\* expected_start of validate_response (line 178)
expected_start == "I'm sorry " \o EmDash \o " I don't have the right context"

CanonicalViolation == "OUT_OF_SCOPE must use canonical response"

\* validate_response returning after the first check that fails
validate_response_FirstOnly(response, state) ==
    LET question_count == count_questions(response)
        max_questions == MaxQuestions(state)
        emoji_count == count_emojis(response)
        forbidden == check_forbidden_phrases(response)
        paragraph_count == count_paragraphs(response)
        violations ==
            (IF question_count > max_questions
             THEN <<"Too many questions: " \o ToString(question_count) \o " (max "
                    \o ToString(max_questions) \o " for " \o state \o ")">>
             ELSE <<>>)
            \o (IF emoji_count > 1
                THEN <<"Too many emojis: " \o ToString(emoji_count) \o " (max 1)">>
                ELSE <<>>)
            \o (IF forbidden # <<>>
                THEN <<"Forbidden phrases found: " \o JoinWith(forbidden, ", ")>>
                ELSE <<>>)
            \o (IF paragraph_count > 5
                THEN <<"Response too long: " \o ToString(paragraph_count)
                       \o " paragraphs (max 5)">>
                ELSE <<>>)
            \o (IF state = "OUT_OF_SCOPE" /\ ~StartsWith(Strip(response), expected_start)
                THEN <<CanonicalViolation>>
                ELSE <<>>)
    IN  [is_valid |-> violations = <<>>,
         violations |-> IF violations = <<>> THEN <<>> ELSE <<violations[1]>>]

\* the violations in the order validate_response appends them
validate_response(response, state) ==
    LET question_count == count_questions(response)
        max_questions == MaxQuestions(state)
        emoji_count == count_emojis(response)
        forbidden == check_forbidden_phrases(response)
        paragraph_count == count_paragraphs(response)
        violations ==
            (IF question_count > max_questions
             THEN <<"Too many questions: " \o ToString(question_count) \o " (max "
                    \o ToString(max_questions) \o " for " \o state \o ")">>
             ELSE <<>>)
            \o (IF emoji_count > 1
                THEN <<"Too many emojis: " \o ToString(emoji_count) \o " (max 1)">>
                ELSE <<>>)
            \o (IF forbidden # <<>>
                THEN <<"Forbidden phrases found: " \o JoinWith(forbidden, ", ")>>
                ELSE <<>>)
            \o (IF paragraph_count > 5
                THEN <<"Response too long: " \o ToString(paragraph_count)
                       \o " paragraphs (max 5)">>
                ELSE <<>>)
            \o (IF state = "OUT_OF_SCOPE" /\ ~StartsWith(Strip(response), expected_start)
                THEN <<CanonicalViolation>>
                ELSE <<>>)
    IN  [is_valid |-> violations = <<>>, violations |-> violations]

\* max_questions of STATE_GUIDELINES, per state
STATE_GUIDELINES ==
    [state \in ConversationState |->
        [max_questions |-> IF state = "OUT_OF_SCOPE" THEN 0 ELSE 1]]

\* ResponseGenerator.build_state_instructions: the QUESTION LIMIT line of the instructions
build_state_instructions(state) ==
    LET guidelines == IF state \in DOMAIN STATE_GUIDELINES THEN STATE_GUIDELINES[state]
                      ELSE STATE_GUIDELINES["CAREER_CURIOSITY"]
    IN  "QUESTION LIMIT: Ask at most " \o ToString(guidelines.max_questions)
            \o " question(s) in your response."

-----------------------------------------------------------------------------
(* Inputs *)

MaxNew == 2
MaxIdx == 5

Ids == {1, 2}

\* every list of at most n elements of S
ListsUpTo(S, n) == UNION {[1..k -> S] : k \in 0..n}

\* extracted traits, as ProfileExtractor and the tests build them
MergeContents == {"reading", "Reading", "gaming"}
Confidences == {8, 9}

\* extracted_at: 0 stamps a stored entry, 1 an incoming one
IncomingItems == [content : MergeContents, confidence : Confidences, extracted_at : {1}]
StoredItem(item) == [item EXCEPT !.extracted_at = 0]

IncomingLists == ListsUpTo(IncomingItems, MaxNew)

\* the lists a profile column can hold: what one update of a new profile stores
StoredLists == {[i \in 1..Len(l) |-> StoredItem(l[i])] :
                    l \in {merge_items(<<>>, n) : n \in IncomingLists}}

\* what update_profile is handed: the dict extract_from_message builds, one list per kind
NoExtractions == [interests |-> <<>>, dislikes |-> <<>>, strengths |-> <<>>,
                  challenges |-> <<>>, career_mentions |-> <<>>]

InterestItems == [content : MergeContents, confidence : {8}]
DislikeItem == [content |-> "maths", confidence |-> 8]
StrengthItem == [content |-> "coding", confidence |-> 8]
ChallengeItem == [content |-> "essays", confidence |-> 8]
CareerItems == [career : {"doctor"}, sentiment : {"positive", "negative"}]

\* what "I hate maths, I'm good at coding, I struggle with essays" yields
OtherTraits == [NoExtractions EXCEPT !.dislikes = <<DislikeItem>>,
                                     !.strengths = <<StrengthItem>>,
                                     !.challenges = <<ChallengeItem>>]

\* interests alone, a career mention alone, the other traits, and every kind at once
Extractions ==
    {[NoExtractions EXCEPT !.interests = l] : l \in ListsUpTo(InterestItems, MaxNew)}
    \cup {[NoExtractions EXCEPT !.career_mentions = <<c>>] : c \in CareerItems}
    \cup {OtherTraits}
    \cup {[OtherTraits EXCEPT !.interests = <<i>>, !.career_mentions = <<c>>] :
               i \in InterestItems, c \in CareerItems}

\* a profile table after three messages of student 1 that mention careers with the three
\* sentiments determine_career_sentiment gives, and one message of student 2
ThreeCareers ==
    UpdatedTable(
        UpdatedTable(
            UpdatedTable(
                UpdatedTable(<<>>, 1,
                    [OtherTraits EXCEPT
                        !.interests = <<[content |-> "reading", confidence |-> 8],
                                        [content |-> "gaming", confidence |-> 8]>>,
                        !.career_mentions = <<[career |-> "engineer",
                                               sentiment |-> "negative"]>>]),
                1, [NoExtractions EXCEPT !.career_mentions =
                                             <<[career |-> "doctor", sentiment |-> "positive"]>>]),
            1, [NoExtractions EXCEPT !.career_mentions =
                                         <<[career |-> "pilot", sentiment |-> "neutral"]>>]),
        2, OtherTraits)

\* the profile tables an update finds: none, the table after one update, and ThreeCareers
StoredTables ==
    {<<>>, ThreeCareers}
    \cup {UpdatedTable(<<>>, student_id, e) : student_id \in Ids, e \in Extractions}

\* how many times in a row update_profile is called with the same extractions
MaxRepeats == 2

\* an incoming trait has the normalized content of a stored trait of its kind
Collides(row, extractions) ==
    \E kind \in TraitKinds : \E i \in DOMAIN row[kind], j \in DOMAIN extractions[kind] :
        Lower(row[kind][i].content) = Lower(extractions[kind][j].content)

\* one message per rule of the detector, in the order of the rules
RuleMessages ==
    <<"my girlfriend", "hello", "no idea", "is it too late", "i enjoy art",
      "doctor or nurse", "career in law", "salary">>

\* messages of the tests and of the welcome screen, blank messages, and messages about
\* none of the rules
OtherMessages ==
    {"", "   ", "\t", " \n\t ", "\n", "Hi", "Hey there", "Good morning", "I'm feeling depressed",
     "I'm depressed about my career choices", "I don't know what to do",
     "Am I good enough to be a doctor?", "I like drawing", "I'm good at math",
     "I like math, what careers use it?", "What does a software engineer do?",
     "Tell me about engineering or medicine", "What is data science?",
     "Science or Commerce?", "Doctor vs Engineer", "When is the JEE exam?",
     "THE GOVERNMENT", "my ex-boyfriend", "my ex wife", "Sussex", "which one",
     "I want to be a pilot", "How do I become a lawyer?", "robots", "  Hello  ",
     "What if I like math?", "Why do I hate exams?", "I just wanted to say hello",
     "oh hello there", "Hello buddy how are you", "this is good", "this is good news today",
     "I wish I knew which stream to pick"}

\* what detect_state is run on: each rule's message, every two of them, and the others
Messages ==
    {RuleMessages[i] : i \in DOMAIN RuleMessages}
    \cup {RuleMessages[i] \o " " \o RuleMessages[j] : i, j \in DOMAIN RuleMessages}
    \cup OtherMessages

\* an optional argument: <<>> when it is None, <<value>> when it is given
Optional(values) == {<<>>} \cup {<<v>> : v \in values}

\* conversation_history and student_profile of detect_state
Histories ==
    Optional({<<>>, <<[role |-> "user", content |-> "hello"],
                      [role |-> "assistant", content |-> "Hey! Good to see you."]>>})
ProfileArguments == Optional({[interests |-> <<"reading">>]})

\* message indices and the values of random.random(), in tenths
MessageIdx == 0..MaxIdx
Draws == {0, 3, 4, 9}

\* the profile tables the referencer is run against: student 1 has said one thing
\* (or nothing), student 2 has stated an interest (or nothing)
OneKind ==
    {[NoExtractions EXCEPT !.interests = <<[content |-> "reading", confidence |-> 8]>>],
     [NoExtractions EXCEPT !.dislikes = <<DislikeItem>>],
     [NoExtractions EXCEPT !.strengths = <<StrengthItem>>],
     [NoExtractions EXCEPT !.challenges = <<ChallengeItem>>]}
    \cup {[NoExtractions EXCEPT !.career_mentions = <<c>>] : c \in CareerItems}

RefTables ==
    LET first == {<<>>} \cup {UpdatedTable(<<>>, 1, e) : e \in OneKind}
    IN  first \cup {UpdatedTable(t, 2, CHOOSE e \in OneKind : e.interests # <<>>) : t \in first}

\* what random.random() and random.choice yield during one get_relevant_reference
Randoms == [fallback : {2, 3}, interest : {0, 1}, template : {0, 1}]
RefRandoms == {r \in Randoms : r.fallback = 2 /\ r.interest = 0 /\ r.template = 0}

\* current_topic and current_input of the calls within SpecRef
RefTopics == Optional({})
RefInputs == {<<"a doctor reading">>}

\* the profiles get_relevant_reference is run against: every choice of interests,
\* dislikes, strengths, challenges and career mentions, stored by one update_profile
ReferenceExtractions ==
    [interests : {<<>>, <<[content |-> "reading", confidence |-> 8]>>,
                  <<[content |-> "listening to music", confidence |-> 8],
                    [content |-> "Chess", confidence |-> 8]>>},
     dislikes : {<<>>, <<DislikeItem>>},
     strengths : {<<>>, <<StrengthItem>>},
     challenges : {<<>>, <<ChallengeItem>>},
     career_mentions : {<<>>, <<[career |-> "Doctor", sentiment |-> "positive"]>>,
                        <<[career |-> "doctor", sentiment |-> "negative"]>>,
                        <<[career |-> "engineer", sentiment |-> "negative"],
                          [career |-> "pilot", sentiment |-> "neutral"]>>}]

ReferenceTables == {<<>>} \cup {UpdatedTable(<<>>, 1, e) : e \in ReferenceExtractions}

\* current_topic and current_input of get_relevant_reference
ReferenceTopics == Optional({"maths and essays"})
ReferenceInputs ==
    Optional({"What does a doctor do all day", "reading or coding", "Is coding hard",
              "going to the park", "I play chess with the pilots", "robots",
              "does a doctor like reading"})

\* what the student types into the chat box
ChatInputs ==
    {"I like reading", "I love my  girlfriend", "What does a doctor do?",
     "<b>Hello</b>", "   "}

\* the student logged in to the session: st.session_state.get("student_id")
SessionStudent == 1

\* the answer of the generation backend
Answer == "Tell me more about that."

\* what the consecutive calls of rag_chain.invoke do in one turn
BackendRuns ==
    {<<"ok", "ok", "ok">>, <<"TimeoutError", "ok", "ok">>,
     <<"ConnectionError", "TimeoutError", "ConnectionError">>, <<"ValueError", "ok", "ok">>}

\* the values of time.time() at which check_rate_limit is called, in seconds
Instants == {0, 59, 60}

\* the most calls of func a retry_with_backoff of the model may make
MaxAttempts == 3

\* what a call of func does: it returns an answer or raises
RetryOutcomes == {"ok", "another answer", "ConnectionError", "TimeoutError",
                  "ConnectionRefusedError", "ValueError"}

\* the call on the profile store that raises in one turn, if any
StoreRuns == {"ok", "update_profile raises", "get_profile_summary raises"}

MaxInputs == 2

\* the values of random.random() on either side of the reference chance, in tenths
ReferenceDraws == {3, 4}

\* the canonical response with the dash that expected_start of validate_response has
CanonicalWithEmDash ==
    "I'm sorry " \o EmDash \o " I don't have the right context to answer this."
    \o "\n\n"
    \o "I can help with careers, education, and future planning, but for this it would be better to speak with a trusted adult like a teacher or parent."
    \o "\n\n"
    \o "If you'd like, we can talk about your studies, career options, or future plans."

\* the responses of tests/test_guardrails.py
TestResponses ==
    {"That's a great question! Engineering involves solving real-world problems using math and science. What aspects interest you most?",
     "That's great! {U+1F60A}{U+1F389}{U+1F44D}{U+1F525}{U+1F4AF} You should definitely explore engineering! {U+1F680}{U+2728}",
     "That's a great question! {U+1F60A} Let me explain how engineering works.",
     "What do you enjoy? What are your hobbies? What subjects do you like? What are your strengths?",
     "You should definitely become a doctor!",
     "I recommend you take science stream.",
     "",
     "Hey! Good to see you. I'm Buddy AI - think of me as your career exploration buddy. What's on your mind today?",
     CANONICAL_OUT_OF_SCOPE_RESPONSE,
     "It's totally normal to feel confused about career choices at your age. Let's start simple - what's one thing you enjoy doing?"}

\* responses on either side of each limit of validate_response
LimitResponses ==
    {"{U+1F60A}{U+1F389}{U+1F44D} great!",
     "{U+1F60A} great!",
     "{U+1F60A} great {U+1F389}",
     "{U+1F60A}{U+1F389}",
     "Okay.",
     "Really? Why?",
     "Really? Why? How?",
     "one\n\ntwo\n\nthree\n\nfour\n\nfive",
     "one\n\ntwo\n\nthree\n\nfour\n\nfive\n\nsix",
     "one\n\n\n\n \n\ntwo",
     "You should definitely chase your dreams? Really?\n\n{U+1F60A} two {U+1F389}\n\nthree?\n\nfour\n\nfive\n\nsix",
     CanonicalWithEmDash,
     "  " \o CanonicalWithEmDash \o "\n",
     CanonicalWithEmDash \o " Shall we?",
     expected_start \o ", but here is how to ask her out.",
     "I'm sorry - I don't have the right context to answer this.",
     "Unlock Your Potential and chase your dreams!"}

Responses == TestResponses \cup LimitResponses


\* the handler's calls on each input, computed once
Sanitized == [raw \in ChatInputs |-> sanitize_input(raw)]
Detected == [raw \in ChatInputs |-> detect_state(Sanitized[raw])]
Extracted == [raw \in ChatInputs |-> [now \in 0..MaxInputs |->
                 extract_from_message(Sanitized[raw], now)]]

-----------------------------------------------------------------------------
(* The operations *)

NoCall == [op |-> "none"]

\* a session in which nothing has been sent
NewSession ==
    /\ messages = <<>>
    /\ message_timestamps = <<>>
    /\ clock = 0
    /\ surfaced = {}

\* a database without students
NoStudents ==
    /\ students = <<>>
    /\ reset_tokens = {}
    /\ bcrypt_truncates = TRUE

\* _merge_items(existing, new) on the stored list and the incoming list drawn
MergeItemsCall ==
    /\ call.op = "merge_input"
    /\ call' = [op |-> "_merge_items", existing |-> call.existing, new |-> call.new,
                result |-> merge_items(call.existing, call.new)]
    /\ UNCHANGED <<profiles, last_reference_message_idx, writers, sessionVars, authVars>>

\* memory_store.update_profile(student_id, extractions)
update_profile(student_id, extractions) ==
    /\ profiles' = UpdatedTable(profiles, student_id, extractions)
    /\ call' = [op |-> "update_profile", student_id |-> student_id,
                collided |-> Collides(get_or_create_profile(profiles, student_id)[student_id],
                                      extractions)]
    /\ UNCHANGED <<last_reference_message_idx, writers, sessionVars, authVars>>

InitStore ==
    /\ profiles = <<>>
    /\ last_reference_message_idx = <<>>
    /\ call = NoCall
    /\ writers = <<>>
    /\ NewSession
    /\ NoStudents

NextStore == \E student_id \in Ids, extractions \in Extractions :
                 update_profile(student_id, extractions)

SpecStore == InitStore /\ [][NextStore]_vars

\* memory_referencer.should_reference_memory(student_id, current_message_idx);
\* get_profile_summary creates the profile row it does not find
should_reference_memory(student_id, current_message_idx, draw) ==
    /\ profiles' = IF RateLimited(last_reference_message_idx, student_id, current_message_idx)
                   THEN profiles
                   ELSE get_or_create_profile(profiles, student_id)
    /\ call' = [op |-> "should_reference_memory", student_id |-> student_id,
                current_message_idx |-> current_message_idx, draw |-> draw,
                result |-> ShouldReference(profiles, last_reference_message_idx,
                                           student_id, current_message_idx, draw)]
    /\ UNCHANGED <<last_reference_message_idx, writers, sessionVars, authVars>>

\* memory_referencer.record_reference_used(student_id, message_idx)
record_reference_used(student_id, message_idx) ==
    /\ last_reference_message_idx' =
          [i \in DOMAIN last_reference_message_idx \cup {student_id} |->
              IF i = student_id THEN message_idx ELSE last_reference_message_idx[i]]
    /\ call' = [op |-> "record_reference_used", student_id |-> student_id,
                message_idx |-> message_idx]
    /\ UNCHANGED <<profiles, writers, sessionVars, authVars>>

\* get_relevant_reference recording the reference it returns, at message 0
get_relevant_reference_Records(student_id, current_topic, current_input, random) ==
    /\ profiles' = get_or_create_profile(profiles, student_id)
    /\ call' = [op |-> "get_relevant_reference", student_id |-> student_id,
                current_topic |-> current_topic, current_input |-> current_input,
                random |-> random,
                result |-> RelevantReference(get_profile_summary(profiles, student_id),
                                             current_topic, current_input, random)]
    /\ last_reference_message_idx' =
          [i \in DOMAIN last_reference_message_idx \cup {student_id} |->
              IF i = student_id THEN 0 ELSE last_reference_message_idx[i]]
    /\ UNCHANGED <<writers, sessionVars, authVars>>

\* memory_referencer.get_relevant_reference(student_id, current_topic, current_input);
\* get_profile_summary creates the profile row it does not find
get_relevant_reference(student_id, current_topic, current_input, random) ==
    /\ profiles' = get_or_create_profile(profiles, student_id)
    /\ call' = [op |-> "get_relevant_reference", student_id |-> student_id,
                current_topic |-> current_topic, current_input |-> current_input,
                random |-> random,
                result |-> RelevantReference(get_profile_summary(profiles, student_id),
                                             current_topic, current_input, random)]
    /\ UNCHANGED <<last_reference_message_idx, writers, sessionVars, authVars>>

\* memory_referencer.build_memory_context(student_id, include_reference, current_topic,
\* current_input)
build_memory_context(student_id, include_reference, current_topic, current_input, random) ==
    /\ profiles' = get_or_create_profile(profiles, student_id)
    /\ call' = [op |-> "build_memory_context", student_id |-> student_id,
                include_reference |-> include_reference,
                result |-> MemoryContext(get_profile_summary(profiles, student_id),
                                         include_reference, current_topic, current_input,
                                         random)]
    /\ UNCHANGED <<last_reference_message_idx, writers, sessionVars, authVars>>

InitRef ==
    /\ profiles \in RefTables
    /\ last_reference_message_idx = <<>>
    /\ call = NoCall
    /\ writers = <<>>
    /\ NewSession
    /\ NoStudents

NextRef ==
    \/ \E student_id \in Ids, idx \in MessageIdx :
           \/ \E draw \in Draws : should_reference_memory(student_id, idx, draw)
           \/ record_reference_used(student_id, idx)
    \/ \E student_id \in Ids, current_topic \in RefTopics, current_input \in RefInputs,
          random \in RefRandoms :
           \/ get_relevant_reference(student_id, current_topic, current_input, random)
           \/ \E include_reference \in BOOLEAN :
                  build_memory_context(student_id, include_reference, current_topic,
                                       current_input, random)

SpecRef == InitRef /\ [][NextRef]_vars

\* memory_referencer.get_relevant_reference on the arguments drawn
GetRelevantReferenceCall ==
    /\ call.op = "reference_input"
    /\ get_relevant_reference(call.student_id, call.current_topic, call.current_input,
                              call.random)

InitReference ==
    /\ profiles \in ReferenceTables
    /\ last_reference_message_idx = <<>>
    /\ call \in [op : {"reference_input"}, student_id : {1}, current_topic : ReferenceTopics,
                 current_input : ReferenceInputs, random : Randoms]
    /\ writers = <<>>
    /\ NewSession
    /\ NoStudents

NextReference == GetRelevantReferenceCall

SpecReference == InitReference /\ [][NextReference]_vars

\* retry_with_backoff(func, max_retries) on the arguments drawn
RetryWithBackoffCall ==
    /\ call.op = "retry_input"
    /\ LET run == RetryFrom(call.outcomes, call.max_retries, 1)
       IN  call' = [op |-> "retry_with_backoff", outcomes |-> call.outcomes,
                    max_retries |-> call.max_retries, outcome |-> run.outcome,
                    calls |-> run.calls]
    /\ UNCHANGED <<profiles, last_reference_message_idx, writers, sessionVars, authVars>>

InitRetry ==
    /\ profiles = <<>>
    /\ last_reference_message_idx = <<>>
    /\ call \in [op : {"retry_input"}, outcomes : [1..MaxAttempts -> RetryOutcomes],
                 max_retries : 0..MaxAttempts]
    /\ writers = <<>>
    /\ NewSession
    /\ NoStudents

NextRetry == RetryWithBackoffCall

SpecRetry == InitRetry /\ [][NextRetry]_vars

\* check_rate_limit() called when time.time() is now, not before the call before it.
\* allowed is history: the instants of the calls so far that returned True.
CheckRateLimitCall(now) ==
    /\ now >= clock
    /\ clock' = now
    /\ message_timestamps' = TimestampsAfter(message_timestamps, now)
    /\ LET result == check_rate_limit(message_timestamps, now)
           allowed == IF call.op = "check_rate_limit" THEN call.allowed ELSE <<>>
       IN  call' = [op |-> "check_rate_limit", now |-> now, result |-> result,
                    allowed |-> IF result THEN Append(allowed, now) ELSE allowed]
    /\ UNCHANGED <<profiles, last_reference_message_idx, writers, messages, surfaced,
                   authVars>>

InitRate ==
    /\ profiles = <<>>
    /\ last_reference_message_idx = <<>>
    /\ call = NoCall
    /\ writers = <<>>
    /\ NewSession
    /\ NoStudents

NextRate == \E now \in Instants : CheckRateLimitCall(now)

SpecRate == InitRate /\ [][NextRate]_vars

\* update_profile line 148, in the session of writer w: get_or_create_profile loads the
\* row (creating it when absent) into the session
LoadProfile(w) ==
    /\ writers[w].pc = "start"
    /\ profiles' = get_or_create_profile(profiles, writers[w].student_id)
    /\ writers' = [writers EXCEPT ![w].pc = "loaded",
                                  ![w].row = profiles'[writers[w].student_id]]
    /\ UNCHANGED <<last_reference_message_idx, call, sessionVars, authVars>>

\* update_profile lines 150-171, in the session of writer w: the columns are merged from
\* the row as loaded, and the commit writes the columns whose value changed
CommitProfile(w) ==
    /\ writers[w].pc = "loaded"
    /\ LET id == writers[w].student_id
           merged == [kind \in DOMAIN StudentProfile |->
                         MergeKind(writers[w].row, writers[w].extractions, kind)]
       IN  profiles' = [profiles EXCEPT ![id] =
                           [kind \in DOMAIN StudentProfile |->
                               IF merged[kind] # writers[w].row[kind] THEN merged[kind]
                               ELSE profiles[id][kind]]]
    /\ writers' = [writers EXCEPT ![w].pc = "done"]
    /\ call' = [op |-> "update_profile", student_id |-> writers[w].student_id,
                collided |-> Collides(writers[w].row, writers[w].extractions)]
    /\ UNCHANGED <<last_reference_message_idx, sessionVars, authVars>>

Writers == {"a", "b"}

InitConcurrent ==
    /\ profiles \in {<<>>, UpdatedTable(<<>>, 1, OtherTraits)}
    /\ last_reference_message_idx = <<>>
    /\ call = NoCall
    /\ writers \in [Writers -> [pc : {"start"}, student_id : {1},
                                 extractions : Extractions, row : {StudentProfile}]]
    /\ NewSession
    /\ NoStudents

NextConcurrent == \E w \in Writers : LoadProfile(w) \/ CommitProfile(w)

SpecConcurrent == InitConcurrent /\ [][NextConcurrent]_vars

\* memory_store.update_profile(student_id, extractions) with the arguments drawn, called
\* again with the same arguments
UpdateProfileCall ==
    /\ call.op \in {"update_input", "update_profile"}
    /\ call.calls < MaxRepeats
    /\ profiles' = UpdatedTable(profiles, call.student_id, call.extractions)
    /\ call' = [op |-> "update_profile", student_id |-> call.student_id,
                extractions |-> call.extractions, calls |-> call.calls + 1]
    /\ UNCHANGED <<last_reference_message_idx, writers, sessionVars, authVars>>

\* memory_store.get_profile_summary(student_id) after the update; get_or_create_profile
\* creates the row it does not find
GetProfileSummaryCall(student_id) ==
    /\ call.op = "update_profile"
    /\ profiles' = get_or_create_profile(profiles, student_id)
    /\ call' = [op |-> "get_profile_summary", student_id |-> student_id,
                result |-> get_profile_summary(profiles, student_id)]
    /\ UNCHANGED <<last_reference_message_idx, writers, sessionVars, authVars>>

InitProfile ==
    /\ profiles \in StoredTables
    /\ last_reference_message_idx = <<>>
    /\ call \in [op : {"update_input"}, student_id : Ids, extractions : Extractions,
                 calls : {0}]
    /\ writers = <<>>
    /\ NewSession
    /\ NoStudents

NextProfile == UpdateProfileCall \/ \E student_id \in Ids : GetProfileSummaryCall(student_id)

SpecProfile == InitProfile /\ [][NextProfile]_vars

InitMerge ==
    /\ profiles = <<>>
    /\ last_reference_message_idx = <<>>
    /\ call \in [op : {"merge_input"}, existing : StoredLists, new : IncomingLists]
    /\ writers = <<>>
    /\ NewSession
    /\ NoStudents

NextMerge == MergeItemsCall

SpecMerge == InitMerge /\ [][NextMerge]_vars

\* state_detector.detect_state(user_input) on the message drawn
DetectStateCall ==
    /\ call.op = "detect_input"
    /\ call' = [op |-> "detect_state", user_input |-> call.user_input,
                conversation_history |-> call.conversation_history,
                student_profile |-> call.student_profile,
                result |-> detect_state(call.user_input)]
    /\ UNCHANGED <<profiles, last_reference_message_idx, writers, sessionVars, authVars>>

InitDetect ==
    /\ profiles = <<>>
    /\ last_reference_message_idx = <<>>
    /\ call \in [op : {"detect_input"}, user_input : Messages \cup {None},
                 conversation_history : Histories, student_profile : ProfileArguments]
    /\ writers = <<>>
    /\ NewSession
    /\ NoStudents

NextDetect == DetectStateCall

SpecDetect == InitDetect /\ [][NextDetect]_vars

\* ResponseGuardrails.validate_response on the response and state of call
ValidateResponseCall ==
    /\ call.op = "validate_input"
    /\ call' = [op |-> "validate_response", response |-> call.response, state |-> call.state,
                is_valid |-> validate_response(call.response, call.state).is_valid,
                violations |-> validate_response(call.response, call.state).violations]
    /\ UNCHANGED <<profiles, last_reference_message_idx, writers, sessionVars, authVars>>

InitValidate ==
    /\ profiles = <<>>
    /\ last_reference_message_idx = <<>>
    /\ call \in [op : {"validate_input"}, response : Responses, state : ConversationState]
    /\ writers = <<>>
    /\ NewSession
    /\ NoStudents

NextValidate == ValidateResponseCall

SpecValidate == InitValidate /\ [][NextValidate]_vars

\* The chat input handler of app.py (lines 254-348) for one input of the student, with
\* the modules loaded.  rag_ready says whether the generation backend was set up in this
\* run of the script, backend what its calls do, draw what random.random() returns,
\* store which call on the profile store raises in this turn.  An exception of
\* update_profile is caught at line 287; one of get_profile_summary, called by
\* should_reference_memory at line 309, is caught at line 332 with everything else the
\* generation block raises.
\* The script builds its MemoryReferencer anew on every run (line 108).
ChatInput(raw, rag_ready, backend, draw, store) ==
    LET user_input == Sanitized[raw]
        now == clock
        allowed == check_rate_limit(message_timestamps, now)
        with_user == Append(messages, [role |-> "user", content |-> user_input])
        current_state == Detected[raw]
        extractions == Extracted[raw][now]
        updated == IF AnyExtracted(extractions) /\ store # "update_profile raises"
                   THEN UpdatedTable(profiles, SessionStudent, extractions)
                   ELSE profiles
        summary_raises == store = "get_profile_summary raises"
        message_idx == Len(with_user)
        should_ref == ShouldReference(updated, <<>>, SessionStudent, message_idx, draw)
        run == retry_with_backoff(backend)
    IN  /\ clock < MaxInputs
        /\ clock' = clock + 1
        /\ last_reference_message_idx' = <<>>
        /\ UNCHANGED <<writers, authVars>>
        /\ IF user_input = ""
           THEN /\ call' = [op |-> "chat_input", raw |-> raw, handled |-> "invalid"]
                /\ UNCHANGED <<profiles, messages, message_timestamps, surfaced>>
           ELSE IF ~allowed
           THEN /\ message_timestamps' = TimestampsAfter(message_timestamps, now)
                /\ call' = [op |-> "chat_input", raw |-> raw, handled |-> "rate_limited"]
                /\ UNCHANGED <<profiles, messages, surfaced>>
           ELSE /\ message_timestamps' = TimestampsAfter(message_timestamps, now)
                /\ IF HandlesOutOfScope(current_state)
                   THEN /\ messages' = Append(with_user,
                                           [role |-> "assistant",
                                            content |-> CANONICAL_OUT_OF_SCOPE_RESPONSE])
                        /\ profiles' = updated
                        /\ UNCHANGED surfaced
                        /\ call' = [op |-> "chat_input", raw |-> raw, handled |-> "canonical",
                                    user_input |-> user_input, current_state |-> current_state,
                                    rag_ready |-> rag_ready, invocations |-> 0,
                                    store |-> store]
                   ELSE IF rag_ready /\ summary_raises
                   THEN /\ messages' = Append(with_user,
                                           [role |-> "assistant", content |-> ErrorResponse])
                        /\ profiles' = updated
                        /\ UNCHANGED surfaced
                        /\ call' = [op |-> "chat_input", raw |-> raw, handled |-> "generated",
                                    user_input |-> user_input, current_state |-> current_state,
                                    rag_ready |-> rag_ready, invocations |-> 0,
                                    message_idx |-> message_idx, should_ref |-> FALSE,
                                    store |-> store, backend |-> backend]
                   ELSE IF rag_ready
                   THEN /\ messages' = Append(with_user,
                                           [role |-> "assistant",
                                            content |-> IF run.outcome = "ok" THEN Answer
                                                        ELSE ErrorResponse])
                        /\ profiles' = get_or_create_profile(updated, SessionStudent)
                        /\ surfaced' = IF should_ref THEN surfaced \cup {message_idx}
                                       ELSE surfaced
                        /\ call' = [op |-> "chat_input", raw |-> raw, handled |-> "generated",
                                    user_input |-> user_input, current_state |-> current_state,
                                    rag_ready |-> rag_ready, invocations |-> run.calls,
                                    message_idx |-> message_idx, should_ref |-> should_ref,
                                    store |-> store, backend |-> backend]
                   ELSE /\ messages' = Append(with_user,
                                           [role |-> "assistant",
                                            content |-> FallbackResponse(current_state)])
                        /\ profiles' = updated
                        /\ UNCHANGED surfaced
                        /\ call' = [op |-> "chat_input", raw |-> raw, handled |-> "fallback",
                                    user_input |-> user_input, current_state |-> current_state,
                                    rag_ready |-> rag_ready, invocations |-> 0,
                                    store |-> store]

InitApp ==
    /\ profiles = <<>>
    /\ last_reference_message_idx = <<>>
    /\ call = NoCall
    /\ writers = <<>>
    /\ NewSession
    /\ NoStudents

NextApp == \E raw \in ChatInputs, rag_ready \in BOOLEAN, backend \in BackendRuns,
              draw \in ReferenceDraws, store \in StoreRuns :
               ChatInput(raw, rag_ready, backend, draw, store)

SpecApp == InitApp /\ [][NextApp]_vars

-----------------------------------------------------------------------------
(* Claims about the profile store *)

Normalized(item) == Lower(item.content)
Elements(list) == {list[i] : i \in DOMAIN list}
WithKey(list, k) == {e \in Elements(list) : Normalized(e) = k}
MaxOf(S) == CHOOSE m \in S : \A n \in S : n <= m

\* C7: after any sequence of update_profile calls no trait list of a stored profile
\* holds two entries whose contents are equal ignoring case.
C7_NoDuplicateTraits ==
    \A id \in DOMAIN profiles : \A kind \in TraitKinds :
        \A i, j \in DOMAIN profiles[id][kind] :
            i # j => Normalized(profiles[id][kind][i]) # Normalized(profiles[id][kind][j])

\* an update whose incoming trait collided with a stored one left two interests stored
C7_Witness ==
    /\ call.op = "update_profile"
    /\ call.collided
    /\ Len(profiles[call.student_id].interests) = 2

\* C8 (amended): for a stored entry e and the incoming entries of the same normalized
\* content, the result keeps e unless an incoming one has strictly higher confidence,
\* in which case it keeps such an incoming entry; on equal confidence it keeps e, the
\* stored entry; an incoming entry with a novel key is added.
C8_TieKeepsStored ==
    call.op = "_merge_items" =>
        /\ \A e \in Elements(call.existing) :
              LET N == WithKey(call.new, Normalized(e))
                  kept == WithKey(call.result, Normalized(e))
              IN  IF \E n \in N : n.confidence > e.confidence
                  THEN \E n \in N : n.confidence > e.confidence /\ kept = {n}
                  ELSE kept = {e}
        /\ \A n \in Elements(call.new) :
              WithKey(call.existing, Normalized(n)) = {} =>
                  \E m \in WithKey(call.new, Normalized(n)) :
                      WithKey(call.result, Normalized(n)) = {m}

\* a tie, a higher incoming confidence and a novel key in one merge
C8_Witness ==
    /\ call.op = "_merge_items"
    /\ \E e \in Elements(call.existing), n \in Elements(call.new) :
          Normalized(n) = Normalized(e) /\ n.confidence = e.confidence /\ n.content # e.content
    /\ \E n \in Elements(call.new) : WithKey(call.existing, Normalized(n)) = {}
    /\ Len(call.result) = 2

\* C8 as claimed: on equal confidence the result keeps the incoming entry.
C8_TieKeepsIncoming ==
    call.op = "_merge_items" =>
        \A e \in Elements(call.existing) :
            LET N == WithKey(call.new, Normalized(e))
                kept == WithKey(call.result, Normalized(e))
            IN  IF \E n \in N : n.confidence >= e.confidence
                THEN \E n \in N : n.confidence >= e.confidence /\ kept = {n}
                ELSE kept = {e}

\* C9: merge yields exactly one entry per normalized content, and its confidence is the
\* highest among the stored and incoming entries of that content.
C9_OneEntryPerKeyMaxConfidence ==
    call.op = "_merge_items" =>
        LET all == Elements(call.existing) \cup Elements(call.new)
        IN  /\ \A e \in all :
                  /\ Cardinality({i \in DOMAIN call.result :
                                     Normalized(call.result[i]) = Normalized(e)}) = 1
                  /\ \A r \in WithKey(call.result, Normalized(e)) :
                        r.confidence =
                            MaxOf({x.confidence : x \in {y \in all : Normalized(y) = Normalized(e)}})
            /\ \A r \in Elements(call.result) : r \in all

\* "reading" at 0.8 merged with "Reading" at 0.9 gives one entry at 0.9
C9_Witness ==
    /\ call.op = "_merge_items"
    /\ call.existing = <<[content |-> "reading", confidence |-> 8, extracted_at |-> 0]>>
    /\ call.new = <<[content |-> "Reading", confidence |-> 9, extracted_at |-> 1]>>
    /\ Len(call.result) = 1
    /\ call.result[1].confidence = 9

\* the normalized keys of the entries a row stores for a kind
KeysOf(row, kind) == {ItemKey(row[kind][i]) : i \in DOMAIN row[kind]}

\* C18: get_profile_summary returns in careers_discussed the careers of the stored career
\* mentions whose sentiment is not negative, in their order, and for each trait kind the
\* list of the content strings of the stored entries.
C18_SummaryListsStoredEntries ==
    call.op = "get_profile_summary" =>
        LET row == profiles[call.student_id]
            kept == SelectSeq(row.career_mentions, LAMBDA c : c.sentiment # "negative")
        IN  /\ call.result.careers_discussed = [i \in DOMAIN kept |-> kept[i].career]
            /\ \A kind \in TraitKinds :
                   call.result[kind] = [i \in DOMAIN row[kind] |-> row[kind][i].content]

\* the summary of a profile with a negative, a positive and a neutral career mention
C18_Witness ==
    /\ call.op = "get_profile_summary"
    /\ Len(profiles[call.student_id].career_mentions) = 3
    /\ call.result.careers_discussed = <<"doctor", "pilot">>
    /\ call.result.interests # <<>>

\* C19: update_profile called a second time with the same extractions leaves every kind of
\* every profile with the set of normalized keys it had after the first call.
C19_SecondUpdateKeepsKeys ==
    [][(call.op = "update_profile" /\ call'.op = "update_profile")
          => /\ DOMAIN profiles' = DOMAIN profiles
             /\ \A id \in DOMAIN profiles : \A kind \in DOMAIN StudentProfile :
                    KeysOf(profiles'[id], kind) = KeysOf(profiles[id], kind)]_vars

\* the second call has been made with extractions that held a new key and a stored one
C19_Witness ==
    /\ call.op = "update_profile"
    /\ call.calls = 2
    /\ Len(call.extractions.interests) = 2
    /\ Cardinality(KeysOf(profiles[call.student_id], "interests")) = 2
    /\ Len(profiles[call.student_id].dislikes) = 1

\* C20: an update_profile call removes no key from a trait list of any profile nor from
\* the list the profile summary gives for it, and changes no profile but that of the
\* identity it is called for.
C20_UpdateOnlyAdds ==
    [][call'.op = "update_profile"
          => \A id \in DOMAIN profiles :
                /\ id \in DOMAIN profiles'
                /\ id # call'.student_id => profiles'[id] = profiles[id]
                /\ \A kind \in TraitKinds :
                       \/ profiles'[id][kind] = profiles[id][kind]
                       \/ /\ KeysOf(profiles[id], kind) \subseteq KeysOf(profiles'[id], kind)
                          /\ {Lower(c) : c \in Elements(get_profile_summary(profiles, id)[kind])}
                                \subseteq
                             {Lower(c) : c \in
                                 Elements(get_profile_summary(profiles', id)[kind])}]_vars

\* both identities have a profile, and an update of identity 1 met a key it had stored
C20_Witness ==
    /\ call.op = "update_profile"
    /\ call.student_id = 1
    /\ call.collided
    /\ 2 \in DOMAIN profiles
    /\ profiles[2].interests # <<>>
    /\ Cardinality(KeysOf(profiles[1], "interests")) = 2

\* the mentions of the career of mention m among the stored mentions
SameCareer(mentions, m) == SelectSeq(mentions, LAMBDA x : Lower(x.career) = Lower(m.career))

\* C30: once a career mention is stored for an identity no later update_profile changes its
\* stored sentiment, so a career first stored with negative sentiment never appears in
\* careers_discussed, however many positive mentions follow.
C30_StoredSentimentStays ==
    [][\A id \in DOMAIN profiles : \A i \in DOMAIN profiles[id].career_mentions :
           LET m == profiles[id].career_mentions[i]
               after == SameCareer(profiles'[id].career_mentions, m)
               summary == get_profile_summary(profiles', id)
           IN  /\ Len(after) = 1
               /\ after[1].sentiment = m.sentiment
               /\ m.sentiment = "negative"
                      => \A j \in DOMAIN summary.careers_discussed :
                             Lower(summary.careers_discussed[j]) # Lower(m.career)]_vars

\* a positive mention of doctor has come in twice for a student whose stored mention of
\* doctor is negative
C30_Witness ==
    /\ call.op = "update_profile"
    /\ call.calls = 2
    /\ \E j \in DOMAIN call.extractions.career_mentions :
           /\ call.extractions.career_mentions[j].career = "doctor"
           /\ call.extractions.career_mentions[j].sentiment = "positive"
    /\ \E i \in DOMAIN profiles[call.student_id].career_mentions :
           /\ profiles[call.student_id].career_mentions[i].career = "doctor"
           /\ profiles[call.student_id].career_mentions[i].sentiment = "negative"

-----------------------------------------------------------------------------
(* Claims about the memory referencer *)

\* C2: for an identity with no recorded reference should_reference_memory returns false
\* at every message index 1 to 4, whatever the profile and the random draw.
C2_FreshIdentityWaits ==
    ( /\ call.op = "should_reference_memory"
      /\ call.student_id \notin DOMAIN last_reference_message_idx
      /\ call.current_message_idx \in 1..4 )
    => call.result = FALSE

\* C3: after record_reference_used(identity, t), should_reference_memory(identity, t')
\* returns false for every t' with t' - t < 5, whatever the profile and the draw.
C3_FalseWithinFiveOfRecorded ==
    ( /\ call.op = "should_reference_memory"
      /\ call.student_id \in DOMAIN last_reference_message_idx
      /\ call.current_message_idx - last_reference_message_idx[call.student_id] < 5 )
    => call.result = FALSE

\* four messages after a recorded reference, a populated profile and a winning draw
C3_Witness ==
    /\ call.op = "should_reference_memory"
    /\ call.student_id \in DOMAIN last_reference_message_idx
    /\ call.current_message_idx - last_reference_message_idx[call.student_id] = 4
    /\ call.draw = 0
    /\ call.student_id \in DOMAIN profiles
    /\ profiles[call.student_id].interests # <<>>
    /\ call.result = FALSE

\* the profile summary of a student has no interests, dislikes, strengths or careers
NothingToReference(id) ==
    \/ id \notin DOMAIN profiles
    \/ /\ profiles[id].interests = <<>>
       /\ profiles[id].dislikes = <<>>
       /\ profiles[id].strengths = <<>>
       /\ \A i \in DOMAIN profiles[id].career_mentions :
              profiles[id].career_mentions[i].sentiment = "negative"

\* C4: should_reference_memory returns false at every message index and for every draw
\* when the profile holds no interests, dislikes, strengths or non-negative careers.
C4_FalseWithoutMemories ==
    (call.op = "should_reference_memory" /\ NothingToReference(call.student_id))
    => call.result = FALSE

\* only a negative career mention stored, no rate limit in the way, a winning draw
C4_Witness ==
    /\ call.op = "should_reference_memory"
    /\ call.student_id \in DOMAIN profiles
    /\ profiles[call.student_id].career_mentions # <<>>
    /\ NothingToReference(call.student_id)
    /\ call.student_id \notin DOMAIN last_reference_message_idx
    /\ call.draw = 0
    /\ call.result = FALSE

\* the last-referenced index recorded for an identity: <<>> when there is none
Recorded(refs, id) == IF id \in DOMAIN refs THEN <<refs[id]>> ELSE <<>>

\* C25: the last-referenced index of an identity changes only through
\* record_reference_used for that identity: should_reference_memory,
\* get_relevant_reference and build_memory_context leave every index unchanged, and
\* record_reference_used(A, t) leaves the index of every other identity unchanged.
C25_OnlyRecordChangesIndex ==
    [][/\ call'.op \in {"should_reference_memory", "get_relevant_reference",
                        "build_memory_context"}
           => last_reference_message_idx' = last_reference_message_idx
       /\ \A id \in Ids :
              Recorded(last_reference_message_idx', id) # Recorded(last_reference_message_idx, id)
                  => call'.op = "record_reference_used" /\ call'.student_id = id]_vars

\* get_relevant_reference has returned a reference to a student who has no recorded
\* reference, while the other student has one
C25_Witness ==
    /\ call.op = "get_relevant_reference"
    /\ call.result # <<>>
    /\ call.student_id = 1
    /\ DOMAIN last_reference_message_idx = {2}

\* the text get_relevant_reference searches: topic and input, lowercased
SearchedText == Lower(OrEmpty(call.current_topic) \o " " \o OrEmpty(call.current_input))

\* a stored content shares a token that is no stopword with the text
SharesToken(content, text) ==
    \E word \in SetOf(Split(Lower(content))) :
        word \in SetOf(Split(text)) /\ word \notin common_words

\* the references of a type to one of the contents
References(type, contents) ==
    {<<Format(template, content), type>> :
        template \in SetOf(REFERENCE_TEMPLATES[type]), content \in contents}

-----------------------------------------------------------------------------
(* Claims about concurrent updates *)

\* C10: when two update_profile calls for one identity run concurrently, the profile
\* stored once both have committed holds every content key either call contributed.
C10_NoLostUpdate ==
    (\A w \in DOMAIN writers : writers[w].pc = "done") =>
        \A w \in DOMAIN writers : \A kind \in DOMAIN StudentProfile :
            \A i \in DOMAIN writers[w].extractions[kind] :
                \E j \in DOMAIN profiles[writers[w].student_id][kind] :
                    ItemKey(profiles[writers[w].student_id][kind][j])
                        = ItemKey(writers[w].extractions[kind][i])

-----------------------------------------------------------------------------
(* Claims about the state detector *)

\* user_input is None, empty or whitespace
Blank(user_input) == user_input = None \/ Strip(user_input) = ""

\* the rules in the order claimed, each with whether the message matches it
Cascade(text) ==
    <<<<"OUT_OF_SCOPE", check_out_of_scope(text) # None>>,
      <<"GREETING", is_greeting(text)>>,
      <<"CONFUSED", is_confused(text)>>,
      <<"VALIDATION_SEEKING", is_validation_seeking(text)>>,
      <<"SELF_REFLECTION", is_self_reflection(text)>>,
      <<"COMPARISON", is_comparison(text)>>,
      <<"CAREER_CURIOSITY", is_career_curiosity(text)>>,
      <<"INFORMATION_SEEKING", is_information_seeking(text)>>>>

Matching(text) == LET rules == Cascade(text) IN {i \in DOMAIN rules : rules[i][2]}

C16_DetectStateIsTotal ==
    call.op = "detect_state"
        => call.result \in ConversationState /\ Cardinality(ConversationState) = 8

\* the default is returned for a text that matches no rule, with a history and a profile
C16_Witness ==
    /\ call.op = "detect_state"
    /\ call.user_input = "robots"
    /\ call.conversation_history # <<>>
    /\ call.student_profile # <<>>
    /\ Matching(call.user_input) = {}
    /\ call.result = "CAREER_CURIOSITY"

\* C17: detect_state returns CONFUSED for the empty string and for every message of
\* whitespace only, whatever the rules would say about it.
C17_BlankIsConfused ==
    (call.op = "detect_state" /\ call.user_input # None /\ Strip(call.user_input) = "")
        => call.result = "CONFUSED"

\* a message of whitespace, which matches no rule and would get the default
C17_Witness ==
    /\ call.op = "detect_state"
    /\ call.user_input = " \n\t "
    /\ Matching(call.user_input) = {}
    /\ call.result = "CONFUSED"

\* the message holds a question word of _is_self_reflection
Interrogative(text) ==
    \E k \in DOMAIN question_words : Contains(normalize_text(text), question_words[k])

\* the message begins with one of the six phrases of _is_self_reflection
BeginsWithSharingPhrase(text) ==
    \E k \in DOMAIN sharing_phrases : StartsWith(normalize_text(text), sharing_phrases[k])

\* C22: an interrogative message that holds a self-reflection phrase matches the
\* SELF_REFLECTION rule only if it begins with one of i like, i love, i enjoy, i hate,
\* i'm good at, i prefer; with such a phrase only later in the text it does not match.
C22_InterrogativeReflectionBeginsWithPhrase ==
    (/\ call.op = "detect_state"
     /\ ~Blank(call.user_input)
     /\ Interrogative(call.user_input)
     /\ check_patterns(call.user_input, SELF_REFLECTION_PATTERNS))
        => /\ is_self_reflection(call.user_input) => BeginsWithSharingPhrase(call.user_input)
           /\ call.result = "SELF_REFLECTION" => BeginsWithSharingPhrase(call.user_input)

\* the message holds one of the six phrases of _is_self_reflection
ContainsSharingPhrase(text) ==
    \E k \in DOMAIN sharing_phrases : Contains(Strip(Lower(text)), sharing_phrases[k])

\* C22, amended: an interrogative message that holds a self-reflection phrase matches the
\* SELF_REFLECTION rule exactly when one of i like, i love, i enjoy, i hate, i'm good at,
\* i prefer occurs anywhere in it.
C22_InterrogativeReflectionContainsPhrase ==
    (/\ call.op = "detect_state"
     /\ ~Blank(call.user_input)
     /\ Interrogative(call.user_input)
     /\ check_patterns(call.user_input, SELF_REFLECTION_PATTERNS))
        => /\ is_self_reflection(call.user_input) <=> ContainsSharingPhrase(call.user_input)
           /\ call.result = "SELF_REFLECTION" => ContainsSharingPhrase(call.user_input)

\* an interrogative message with one of the six phrases after its start is detected as
\* self-reflection
C22_Witness ==
    /\ call.op = "detect_state"
    /\ ~Blank(call.user_input)
    /\ Interrogative(call.user_input)
    /\ ContainsSharingPhrase(call.user_input)
    /\ ~BeginsWithSharingPhrase(call.user_input)
    /\ call.result = "SELF_REFLECTION"

\* the words of the lowercased, trimmed message
WordsOf(text) == Split(Strip(Lower(text)))

ContainsGreeting(text) ==
    \E k \in DOMAIN GREETING_PATTERNS : Contains(Strip(Lower(text)), GREETING_PATTERNS[k])

StartsWithGreeting(text) ==
    \E k \in DOMAIN GREETING_PATTERNS : StartsWith(Strip(Lower(text)), GREETING_PATTERNS[k])

\* C23: the GREETING rule matches a message of at most 3 words when a greeting phrase is
\* contained anywhere in it, and a message of more than 3 words only when the lowercased,
\* trimmed text starts with a greeting phrase. The rule decides the state of every message
\* without an out-of-scope keyword.
C23_GreetingByLength ==
    (/\ call.op = "detect_state"
     /\ ~Blank(call.user_input)
     /\ check_out_of_scope(call.user_input) = None)
        => (call.result = "GREETING"
                <=> IF Len(WordsOf(call.user_input)) <= 3
                    THEN ContainsGreeting(call.user_input)
                    ELSE StartsWithGreeting(call.user_input))

\* a message of more than 3 words with a greeting phrase only after its start
C23_Witness ==
    /\ call.op = "detect_state"
    /\ ~Blank(call.user_input)
    /\ check_out_of_scope(call.user_input) = None
    /\ Len(WordsOf(call.user_input)) > 3
    /\ ContainsGreeting(call.user_input)
    /\ ~StartsWithGreeting(call.user_input)
    /\ call.result # "GREETING"

-----------------------------------------------------------------------------
(* Claims about the chat input handler *)

\* C1: in any sequence of turns the application processes for one identity,
\* should_reference_memory never returns true at two different turn indices that are
\* less than 5 apart.
C1_SurfacedAtMostOncePerFive ==
    \A i, j \in surfaced : i < j => j - i >= 5

\* C6: in every turn whose detected state is OUT_OF_SCOPE the assistant message appended
\* to the chat is exactly the canonical string, and the generation backend is not invoked.
C6_OutOfScopeIsCanonical ==
    (call.op = "chat_input" /\ call.handled \in {"canonical", "generated", "fallback"}
        /\ call.current_state = "OUT_OF_SCOPE")
    => /\ Len(messages) >= 2
       /\ messages[Len(messages) - 1] = [role |-> "user", content |-> call.user_input]
       /\ messages[Len(messages)] = [role |-> "assistant",
                                     content |-> CANONICAL_OUT_OF_SCOPE_RESPONSE]
       /\ call.invocations = 0

\* an out-of-scope message handled in a run whose generation backend was ready
C6_Witness ==
    /\ call.op = "chat_input"
    /\ call.handled = "canonical"
    /\ call.current_state = "OUT_OF_SCOPE"
    /\ call.rag_ready
    /\ messages[Len(messages)].content = CANONICAL_OUT_OF_SCOPE_RESPONSE


\* C11: when a call on the profile store raises during a turn that reaches generation with
\* a backend that answers, the turn keeps the state the classifier detected and the
\* assistant message delivered is the generated answer, never the error message.
C11_StoreFailureKeepsReply ==
    (/\ call.op = "chat_input"
     /\ call.handled = "generated"
     /\ call.store # "ok"
     /\ retry_with_backoff(call.backend).outcome = "ok")
        => /\ call.current_state = Detected[call.raw]
           /\ messages[Len(messages)] = [role |-> "assistant", content |-> Answer]

-----------------------------------------------------------------------------
(* Claims about the response guardrails *)

Validated == call.op = "validate_response"

HasViolation(prefix) == \E i \in DOMAIN call.violations : StartsWith(call.violations[i], prefix)

\* C12: for state OUT_OF_SCOPE validate_response returns is_valid = true exactly when the
\* response starts with the whole canonical out-of-scope string of constants.py, and every
\* invalid response carries the canonical-response violation.
C12_ValidIffStartsWithCanonical ==
    (Validated /\ call.state = "OUT_OF_SCOPE")
        => /\ call.is_valid <=> StartsWith(call.response, CANONICAL_OUT_OF_SCOPE_RESPONSE)
           /\ ~call.is_valid => HasViolation(CanonicalViolation)

\* C13: CANONICAL_OUT_OF_SCOPE_RESPONSE, the string the application delivers on an
\* OUT_OF_SCOPE turn, is valid for state OUT_OF_SCOPE with an empty list of violations.
C13_CanonicalPasses ==
    (Validated /\ call.state = "OUT_OF_SCOPE"
               /\ call.response = CANONICAL_OUT_OF_SCOPE_RESPONSE)
        => call.is_valid /\ call.violations = <<>>

\* the limit of questions the claim gives for a state
QuestionLimit(state) ==
    CASE state = "OUT_OF_SCOPE" -> 0
      [] state \in {"CONFUSED", "VALIDATION_SEEKING", "SELF_REFLECTION"} -> 1
      [] OTHER -> 2

\* C14: validate_response reports a question-count violation exactly when the number of
\* '?' characters of the response exceeds the limit of the state: 0 for OUT_OF_SCOPE, 1 for
\* CONFUSED, VALIDATION_SEEKING and SELF_REFLECTION, 2 for every other state.
C14_QuestionViolationIffOverLimit ==
    Validated
        => (HasViolation("Too many questions")
               <=> count_questions(call.response) > QuestionLimit(call.state))

\* a response with two questions, over the limit of CONFUSED
C14_Witness ==
    /\ Validated
    /\ call.response = "Really? Why?"
    /\ call.state = "CONFUSED"
    /\ HasViolation("Too many questions")

\* the number of characters of text that are in the class of emoji_pattern
EmojiCharacters(text) == Cardinality({i \in 1..Len(text) : InEmojiClass(text, i)})

\* C15: validate_response reports an emoji-count violation whenever the response holds more
\* than one emoji, adjacent or not, and none when it holds exactly one.
C15_EmojiViolationIffMoreThanOne ==
    Validated
        => /\ EmojiCharacters(call.response) > 1 => HasViolation("Too many emojis")
           /\ EmojiCharacters(call.response) = 1 => ~HasViolation("Too many emojis")

-----------------------------------------------------------------------------
(* auth/validators.py *)

Letters == {CharAt(LowerLetters, i) : i \in 1..26} \cup {CharAt(UpperLetters, i) : i \in 1..26}
DigitChars == {CharAt(Digits, i) : i \in 1..10}

AllIn(s, from, to, class) == \A i \in from..to : CharAt(s, i) \in class

\* re.match(r'^[a-zA-Z0-9._%+-]+@[a-zA-Z0-9.-]+\.[a-zA-Z]{2,}$', email)
email_pattern(email) ==
    \E at \in 2..Len(email) : \E dot \in (at + 2)..(Len(email) - 2) :
        /\ CharAt(email, at) = "@"
        /\ AllIn(email, 1, at - 1, Letters \cup DigitChars \cup {".", "_", "%", "+", "-"})
        /\ AllIn(email, at + 1, dot - 1, Letters \cup DigitChars \cup {".", "-"})
        /\ CharAt(email, dot) = "."
        /\ AllIn(email, dot + 1, Len(email), Letters)

\* email.split('@')[1] of an address that matches email_pattern
EmailDomain(email) ==
    LET at == FirstAt(email, 1, "@")
    IN  SubSeq(email, at + 1, Len(email))

\* validate_email_domain: the is_valid of the pair it returns
validate_email_domain(email, allowed_domains) ==
    /\ email # ""
    /\ email_pattern(email)
    /\ Lower(EmailDomain(email)) \in {Lower(d) : d \in allowed_domains}

\* validate_password_strength: the is_valid of the pair it returns
validate_password_strength(password) ==
    /\ password # ""
    /\ Len(password) >= 8
    /\ \E i \in 1..Len(password) : CharAt(password, i) \in Letters
    /\ \E i \in 1..Len(password) : CharAt(password, i) \in DigitChars

\* validate_grade: the is_valid of the pair it returns
validate_grade(grade) == grade \in {8, 9, 10}

-----------------------------------------------------------------------------
(* auth/auth_handler.py, auth/session_manager.py *)

\* the domains of the schools table: _ensure_default_school adds the demo school
get_allowed_domains == {"demo.school.com"}

\* the number of bytes of a password that bcrypt hashes
bcrypt_bytes == 72

\* bcrypt raises ValueError for a password of more than 72 bytes from 5.0 on
BcryptRaises(password) == ~bcrypt_truncates /\ Len(password) > bcrypt_bytes

\* AuthHandler._hash_password: what the hash depends on, the salt aside. The passwords of
\* the model are ASCII, a byte each.
hash_password(password) ==
    SubSeq(password, 1, IF Len(password) < bcrypt_bytes THEN Len(password) ELSE bcrypt_bytes)

\* AuthHandler._verify_password
verify_password(password, hashed) == hash_password(password) = hashed

\* SessionManager.create_session, create_password_reset_token: a token is named by its
\* type and the email of its payload
create_session(email) == "session:" \o email
create_password_reset_token(email) == "password_reset:" \o email

\* SessionManager.validate_password_reset_token: the email of the payload, None for a token
\* that is expired, of the wrong type or not signed by this handler
validate_password_reset_token(token, expired) ==
    LET issued == {e \in reset_tokens : create_password_reset_token(e) = token}
    IN  IF expired \/ issued = {} THEN None ELSE CHOOSE e \in issued : TRUE

\* the row with this email
FindStudent(email) == IF Lower(email) \in DOMAIN students THEN <<students[Lower(email)]>> ELSE <<>>

\* what an operation of the handler returned; raised: it raised ValueError instead
AuthCall(op, email, password, success, token, raised) ==
    [op |-> op, email |-> email, password |-> password, success |-> success, token |-> token,
     raised |-> raised]

\* AuthHandler.register_student. The row keeps, next to the hash, the password that was
\* hashed last (history, not a column).
register_student(email, grade) ==
    LET ok == /\ validate_email_domain(email, get_allowed_domains)
              /\ validate_grade(grade)
              /\ FindStudent(email) = <<>>
        row == [email |-> Lower(email), grade |-> grade, password_hash |-> None,
                password |-> None, is_active |-> TRUE, password_set |-> FALSE]
    IN  /\ students' = IF ok THEN (Lower(email) :> row) @@ students ELSE students
        /\ call' = AuthCall("register_student", email, None, ok, None, FALSE)
        /\ UNCHANGED <<reset_tokens, bcrypt_truncates>>
        /\ UNCHANGED <<profiles, last_reference_message_idx, writers, sessionVars>>

\* AuthHandler.setup_password
setup_password(email, password) ==
    LET found == FindStudent(email)
        ok == /\ found # <<>>
              /\ ~found[1].password_set
              /\ validate_password_strength(password)
        raises == ok /\ BcryptRaises(password)
        row == [found[1] EXCEPT !.password_hash = hash_password(password),
                                !.password = password, !.password_set = TRUE]
    IN  /\ students' = IF ok /\ ~raises THEN [students EXCEPT ![Lower(email)] = row]
                       ELSE students
        /\ call' = AuthCall("setup_password", email, password, ok /\ ~raises,
                            IF ok /\ ~raises THEN create_session(found[1].email) ELSE None,
                            raises)
        /\ UNCHANGED <<reset_tokens, bcrypt_truncates>>
        /\ UNCHANGED <<profiles, last_reference_message_idx, writers, sessionVars>>

\* AuthHandler.login
login(email, password) ==
    LET found == FindStudent(email)
        checked == /\ found # <<>>
                   /\ found[1].is_active
                   /\ found[1].password_set
        raises == checked /\ BcryptRaises(password)
        ok == checked /\ ~raises /\ verify_password(password, found[1].password_hash)
    IN  /\ call' = AuthCall("login", email, password, ok,
                            IF ok THEN create_session(found[1].email) ELSE None, raises)
        /\ UNCHANGED authVars
        /\ UNCHANGED <<profiles, last_reference_message_idx, writers, sessionVars>>

\* AuthHandler.request_password_reset
request_password_reset(email) ==
    LET found == FindStudent(email)
        issues == found # <<>> /\ found[1].password_set
    IN  /\ reset_tokens' = IF issues THEN reset_tokens \cup {found[1].email} ELSE reset_tokens
        /\ call' = AuthCall("request_password_reset", email, None,
                            found = <<>> \/ issues,
                            IF issues THEN create_password_reset_token(found[1].email) ELSE None,
                            FALSE)
        /\ UNCHANGED <<students, bcrypt_truncates>>
        /\ UNCHANGED <<profiles, last_reference_message_idx, writers, sessionVars>>

\* AuthHandler.reset_password; the student is found by the id of the payload, and no row
\* is ever deleted
reset_password(token, new_password, expired) ==
    LET payload == validate_password_reset_token(token, expired)
        ok == /\ payload # None
              /\ validate_password_strength(new_password)
        raises == ok /\ BcryptRaises(new_password)
    IN  /\ students' = IF ok /\ ~raises
                       THEN [students EXCEPT ![payload].password_hash = hash_password(new_password),
                                             ![payload].password = new_password]
                       ELSE students
        /\ call' = AuthCall("reset_password", IF payload = None THEN None ELSE payload,
                            new_password, ok /\ ~raises, None, raises)
        /\ UNCHANGED <<reset_tokens, bcrypt_truncates>>
        /\ UNCHANGED <<profiles, last_reference_message_idx, writers, sessionVars>>

\* a valid password of 72 characters
SeventyTwo == "Correct1HorseBatteryStapleCorrect2HorseBatteryStapleCorrect3HorseBattery"

\* the addresses and passwords of tests/test_auth.py, the first address in another case,
\* and two passwords that differ after their 72nd character
Emails == {"test@demo.school.com", "Test@Demo.School.com", "unknown@demo.school.com"}
Passwords == {"SecurePass123", "WrongPassword", SeventyTwo \o "-first",
              SeventyTwo \o "-second"}
Grades == {9, 11}
ResetTokens == {create_password_reset_token("test@demo.school.com"),
                create_session("test@demo.school.com")}

InitAuth ==
    /\ profiles = <<>>
    /\ last_reference_message_idx = <<>>
    /\ call = NoCall
    /\ writers = <<>>
    /\ NewSession
    /\ students = <<>>
    /\ reset_tokens = {}
    /\ bcrypt_truncates \in BOOLEAN

NextAuth ==
    \/ \E email \in Emails, grade \in Grades : register_student(email, grade)
    \/ \E email \in Emails, password \in Passwords : setup_password(email, password)
    \/ \E email \in Emails, password \in Passwords : login(email, password)
    \/ \E email \in Emails : request_password_reset(email)
    \/ \E token \in ResetTokens, password \in Passwords, expired \in BOOLEAN :
           reset_password(token, password, expired)

SpecAuth == InitAuth /\ [][NextAuth]_vars

\* the number of entries of the violation list that start with prefix
Entries(prefix) ==
    Cardinality({i \in DOMAIN call.violations : StartsWith(call.violations[i], prefix)})

\* the checks of validate_response with the prefix of their entry and whether they fail
Checks(response, state) ==
    <<<<"Too many questions", count_questions(response) > QuestionLimit(state)>>,
      <<"Too many emojis", count_emojis(response) > 1>>,
      <<"Forbidden phrases found", check_forbidden_phrases(response) # <<>>>>,
      <<"Response too long", count_paragraphs(response) > 5>>,
      <<CanonicalViolation,
        state = "OUT_OF_SCOPE" /\ ~StartsWith(Strip(response), expected_start)>>>>

Instructs(instructions, n) ==
    Contains(instructions, "Ask at most " \o ToString(n) \o " question(s)")

\* C29: for every state the question limit of the state instructions given to the
\* generation backend is the limit validate_response enforces: a reply gets no
\* question-count violation exactly when it keeps to the limit of its instructions.
C29_InstructedLimitIsEnforcedLimit ==
    Validated
        => \E n \in 0..2 :
               /\ Instructs(build_state_instructions(call.state), n)
               /\ count_questions(call.response) <= n <=> ~HasViolation("Too many questions")

-----------------------------------------------------------------------------
(* Claims about the utilities *)

\* the exception is an instance of a class listed in exceptions
Listed(outcome) ==
    outcome \in {"ConnectionError", "TimeoutError"}
    \/ ExceptionBase(outcome) \in {"ConnectionError", "TimeoutError"}

Raises(outcome) == Listed(outcome) \/ outcome = "ValueError"

\* C27: for max_retries >= 1 retry_with_backoff calls func at most max_retries times,
\* stops at the first call that succeeds and returns its result, re-raises the last caught
\* exception once max_retries calls have all failed with a listed exception, and lets an
\* exception of an unlisted type propagate from the call that raised it, without any
\* further call.
C27_RetryStopsAtFirstEnd ==
    (call.op = "retry_with_backoff" /\ call.max_retries >= 1)
        => LET ends == {k \in 1..call.max_retries : ~Listed(call.outcomes[k])}
           IN  /\ call.calls \in 1..call.max_retries
               /\ ends # {} => /\ call.calls = Least(ends)
                               /\ call.outcome = call.outcomes[Least(ends)]
               /\ ends = {} => /\ call.calls = call.max_retries
                               /\ call.outcome = call.outcomes[call.max_retries]

\* two listed exceptions, then an answer, within three attempts
C27_Witness ==
    /\ call.op = "retry_with_backoff"
    /\ call.max_retries = 3
    /\ Listed(call.outcomes[1])
    /\ Listed(call.outcomes[2])
    /\ call.outcomes[1] # call.outcomes[2]
    /\ ~Raises(call.outcomes[3])
    /\ call.calls = 3
    /\ call.outcome = call.outcomes[3]

\* C28: in any sequence of check_rate_limit calls of one session at most 30 calls return
\* True within any 60-second window (of any 31 allowed calls the last is 60 seconds or
\* more after the first); a call that returns False records no timestamp, and a call made
\* 60 seconds or more after the oldest recorded timestamp is allowed.
C28_AtMostThirtyPerWindow ==
    [][call'.op = "check_rate_limit"
           => /\ \A i, j \in DOMAIN call'.allowed :
                     j - i >= 30 => call'.allowed[j] - call'.allowed[i] >= 60
              /\ ~call'.result
                     => message_timestamps'
                            = SelectSeq(message_timestamps, LAMBDA ts : call'.now - ts < 60)
              /\ (message_timestamps # <<>> /\ call'.now - message_timestamps[1] >= 60)
                     => call'.result]_vars

\* thirty messages were let through, further ones were held back, and the 31st is let
\* through 60 seconds after the first
C28_Witness ==
    /\ call.op = "check_rate_limit"
    /\ call.result
    /\ call.now = 60
    /\ Len(call.allowed) = 31
    /\ call.allowed[1] = 0
    /\ call.allowed[30] = 59

-----------------------------------------------------------------------------
(* Claims about the authentication handler *)

\* C21: login returns success with a session token only if the email is registered, the
\* account is active, a password has been set and the supplied password equals the one
\* stored most recently; a failed login returns no token.
C21_LoginOnlyWithStoredPassword ==
    call.op = "login"
        => /\ call.success
                => /\ Lower(call.email) \in DOMAIN students
                   /\ students[Lower(call.email)].is_active
                   /\ students[Lower(call.email)].password_set
                   /\ call.password = students[Lower(call.email)].password
                   /\ call.token # None
           /\ ~call.success => call.token = None

=============================================================================
